---------------------------- MODULE Spec2Model ----------------------------
(***************************************************************************)
(* Cache-based group-by statistics of the MicrobeAtlas companion notebook  *)
(* (Julia): _populate_caches!, _populate_caches_logged!, groupby_mean! and *)
(* _fast_cor_binned, working on the caches that                            *)
(* compute_latitudinal_abundance_cors allocates once and reuses for every  *)
(* column of the OTU matrix.                                               *)
(*                                                                         *)
(* Numbers.  The Float64 entries of sum_cache and mean_cache are modelled  *)
(* as exact reals of the form (n + SUM t[m]*log10(m)) / d  (n, d and the   *)
(* coefficients t[m] integers), together with the IEEE specials NaN, +Inf  *)
(* and -Inf.  Rounding is not modelled: sums, quotients and logarithms are *)
(* exact.  Two different representations may denote the same real (for    *)
(* instance log10(4) and 2*log10(2)); equal representations always do.     *)
(*                                                                         *)
(* Vectors.  A value vector is either dense (every entry is iterated) or   *)
(* sparse (stored indices and stored values, as rowvals/nonzeros return    *)
(* them).  Sparse inputs are the ones sparse(v) builds: the stored entries *)
(* are exactly the non-zero ones.  Abundances are non-negative.            *)
(***************************************************************************)
EXTENDS Integers, Sequences, FiniteSets, TLC

\* ------------------------------------------------------------------ bounds
NGroups == 2    \* length of the accumulator arrays (G)
NSamp == 3      \* samples (rows of the OTU matrix) of a single call
MaxVal == 2     \* largest abundance value of a single call
SeqSamp == 2    \* samples in a sequence of calls
SeqMaxVal == 1  \* largest abundance value in a sequence of calls

\* ------------------------------------------------------- integer helpers
Abs(x) == IF x < 0 THEN -x ELSE x

RECURSIVE Gcd(_, _)
Gcd(a, b) == IF b = 0 THEN Abs(a) ELSE Gcd(b, a % Abs(b))

RECURSIVE GcdSet(_, _)
GcdSet(S, acc) ==
    IF S = {} THEN acc
    ELSE LET x == CHOOSE y \in S : TRUE IN GcdSet(S \ {x}, Gcd(acc, x))

RECURSIVE SumSeq(_, _)
SumSeq(s, i) == IF i > Len(s) THEN 0 ELSE s[i] + SumSeq(s, i + 1)

RECURSIVE Pow(_, _)
Pow(b, e) == IF e <= 0 THEN 1 ELSE b * Pow(b, e - 1)

\* ---------------------------------------------------------------- floats
NoTerms == [m \in {} |-> 0]

NaN == [k |-> "nan", n |-> 0, d |-> 1, t |-> NoTerms]
PInf == [k |-> "inf", n |-> 1, d |-> 1, t |-> NoTerms]
NInf == [k |-> "inf", n |-> -1, d |-> 1, t |-> NoTerms]

IsNaN(a) == a.k = "nan"
IsInf(a) == a.k = "inf"
IsFin(a) == a.k = "fin"

\* The finite number (n + SUM t[m]*log10(m)) / d in lowest terms, d > 0.
Fin(n, d, t) ==
    LET s == IF d < 0 THEN -1 ELSE 1
        g == GcdSet({Abs(t[m]) : m \in DOMAIN t}, Gcd(n, d))
    IN [k |-> "fin", n |-> (s * n) \div g, d |-> (s * d) \div g,
        t |-> [m \in DOMAIN t |-> (s * t[m]) \div g]]

FromInt(v) == Fin(v, 1, NoTerms)
Zero == FromInt(0)

TScale(t, c) == [m \in {x \in DOMAIN t : c # 0} |-> t[m] * c]

TAdd(s, t) ==
    LET co(m) == (IF m \in DOMAIN s THEN s[m] ELSE 0)
                 + (IF m \in DOMAIN t THEN t[m] ELSE 0)
    IN [m \in {x \in DOMAIN s \cup DOMAIN t : co(x) # 0} |-> co(m)]

\* iszero(x): NaN and the infinities are not zero.
IsZero(a) == IsFin(a) /\ a.n = 0 /\ DOMAIN a.t = {}

\* a + b
FAdd(a, b) ==
    IF IsNaN(a) \/ IsNaN(b) THEN NaN
    ELSE IF IsInf(a) /\ IsInf(b) THEN (IF a.n = b.n THEN a ELSE NaN)
    ELSE IF IsInf(a) THEN a
    ELSE IF IsInf(b) THEN b
    ELSE Fin(a.n * b.d + b.n * a.d, a.d * b.d,
             TAdd(TScale(a.t, b.d), TScale(b.t, a.d)))

\* Sign of a finite number: n + SUM t[m]*log10(m) > 0 iff
\* 10^n * PROD m^t[m] > 1, decided in integers.
RECURSIVE ProdPow(_, _, _)
ProdPow(t, S, pos) ==
    IF S = {} THEN 1
    ELSE LET m == CHOOSE y \in S : TRUE
             e == IF pos THEN t[m] ELSE -t[m]
         IN Pow(m, e) * ProdPow(t, S \ {m}, pos)

Sign(a) ==
    IF ~IsFin(a) THEN a.n
    ELSE IF DOMAIN a.t = {} THEN (IF a.n > 0 THEN 1 ELSE IF a.n < 0 THEN -1 ELSE 0)
    ELSE LET up == Pow(10, a.n) * ProdPow(a.t, DOMAIN a.t, TRUE)
             dn == Pow(10, -a.n) * ProdPow(a.t, DOMAIN a.t, FALSE)
         IN IF up > dn THEN 1 ELSE IF up < dn THEN -1 ELSE 0

\* a * c for an integer c (log10(pcount) * n_zeros)
FMulInt(a, c) ==
    IF IsNaN(a) THEN NaN
    ELSE IF IsInf(a) THEN
        (IF c = 0 THEN NaN ELSE IF c > 0 THEN a ELSE (IF a.n > 0 THEN NInf ELSE PInf))
    ELSE Fin(a.n * c, a.d, TScale(a.t, c))

\* a / c for an integer c (sum_cache ./ group_count_cache)
FDivInt(a, c) ==
    IF IsNaN(a) THEN NaN
    ELSE IF IsInf(a) THEN
        (IF c >= 0 THEN a ELSE (IF a.n > 0 THEN NInf ELSE PInf))
    ELSE IF c = 0 THEN
        (IF Sign(a) = 0 THEN NaN ELSE IF Sign(a) > 0 THEN PInf ELSE NInf)
    ELSE Fin(a.n, a.d * c, a.t)

\* a < b for finite numbers without logarithm terms
QLess(a, b) == a.n * b.d < b.n * a.d

RECURSIVE Pow10Exp(_)
\* e with m = 10^e, or -1 when m is no power of ten
Pow10Exp(m) ==
    IF m = 1 THEN 0
    ELSE IF m % 10 # 0 THEN -1
    ELSE LET e == Pow10Exp(m \div 10) IN IF e < 0 THEN -1 ELSE e + 1

\* log10 of the positive integer m
LogInt(m) ==
    IF Pow10Exp(m) >= 0 THEN FromInt(Pow10Exp(m))
    ELSE Fin(0, 1, [x \in {m} |-> 1])

\* log10(a / b) for integers a >= 0, b > 0: log10(0) is -Inf
Log10Q(a, b) ==
    IF a = 0 THEN NInf
    ELSE LET g == Gcd(a, b)
         IN FAdd(LogInt(a \div g), FMulInt(LogInt(b \div g), -1))

\* log10(x) of a float without logarithm terms
FLog10(x) ==
    IF IsNaN(x) THEN NaN
    ELSE IF IsInf(x) THEN (IF x.n > 0 THEN PInf ELSE NaN)
    ELSE Log10Q(x.n, x.d)

\* --------------------------------------------------------------- vectors
\* A dense Vector and a SparseVector (or a column view of a SparseMatrixCSC).
Dense(v) == [rep |-> "dense", v |-> v]
SparseVec(n, nzind, nzval) == [rep |-> "sparse", n |-> n, nzind |-> nzind, nzval |-> nzval]

RECURSIVE NzInd(_, _)
\* the indices >= i of the non-zero entries of the sequence v, ascending
NzInd(v, i) ==
    IF i > Len(v) THEN << >>
    ELSE IF v[i] # 0 THEN <<i>> \o NzInd(v, i + 1) ELSE NzInd(v, i + 1)

\* sparse(v): only the non-zero entries are stored
Sparse(v) ==
    LET ind == NzInd(v, 1)
    IN SparseVec(Len(v), ind, [k \in 1..Len(ind) |-> v[ind[k]]])

\* Method dispatch on Union{SparseVector, SubArray{<:AbstractFloat,1,<:SparseMatrixCSC}}
IsSparse(val_vec) == val_vec.rep = "sparse"
rowvals(val_vec) == val_vec.nzind
nonzeros(val_vec) == val_vec.nzval
Length(val_vec) == IF IsSparse(val_vec) THEN val_vec.n ELSE Len(val_vec.v)

\* val_vec[i]
Elem(val_vec, i) ==
    IF ~IsSparse(val_vec) THEN val_vec.v[i]
    ELSE IF \E k \in DOMAIN val_vec.nzind : val_vec.nzind[k] = i
         THEN val_vec.nzval[CHOOSE k \in DOMAIN val_vec.nzind : val_vec.nzind[k] = i]
         ELSE 0

\* all(iszero, val_vec)
AllZero(val_vec) == \A i \in 1..Length(val_vec) : Elem(val_vec, i) = 0

\* minimum(vals) of a non-empty sequence of numbers
Minimum(vals) == CHOOSE x \in {vals[k] : k \in DOMAIN vals} :
                     \A k \in DOMAIN vals : x <= vals[k]

\* ----------------------------------------------------------- the caches
\* zeros(Float64, n), zeros(Int, n)
ZerosF(n) == [g \in 1..n |-> Zero]
ZerosI(n) == [g \in 1..n |-> 0]

\* fill!(a, x)
Fill(a, x) == [g \in DOMAIN a |-> x]

\* Outcome of a populate pass: the arrays as the pass left them and the
\* exception that ended it ("none" when it returned).
Pass(sum_cache, prev_cache, err) ==
    [sum_cache |-> sum_cache, prev_cache |-> prev_cache, err |-> err]

RECURSIVE PopulateDenseFrom(_, _, _, _, _)
PopulateDenseFrom(val_vec, group_vec, sum_cache, prev_cache, i) ==
    IF i > Length(val_vec) THEN Pass(sum_cache, prev_cache, "none")
    ELSE IF i \notin DOMAIN group_vec THEN Pass(sum_cache, prev_cache, "BoundsError")
    ELSE LET group == group_vec[i] IN
         IF group \notin DOMAIN sum_cache
         THEN Pass(sum_cache, prev_cache, "BoundsError")
         ELSE PopulateDenseFrom(val_vec, group_vec,
                  [sum_cache EXCEPT ![group] = FAdd(@, FromInt(Elem(val_vec, i)))],
                  [prev_cache EXCEPT ![group] = @ + 1], i + 1)

RECURSIVE PopulateDenseUncheckedFrom(_, _, _, _, _)
PopulateDenseUncheckedFrom(val_vec, group_vec, sum_cache, prev_cache, i) ==
    IF i > Length(val_vec) THEN Pass(sum_cache, prev_cache, "none")
    ELSE LET group == group_vec[i] IN
         IF group \notin DOMAIN sum_cache
         THEN PopulateDenseUncheckedFrom(val_vec, group_vec, sum_cache, prev_cache, i + 1)
         ELSE PopulateDenseUncheckedFrom(val_vec, group_vec,
                  [sum_cache EXCEPT ![group] = FAdd(@, FromInt(Elem(val_vec, i)))],
                  [prev_cache EXCEPT ![group] = @ + 1], i + 1)

\* the generic pass without a bounds check: ids outside 1..G are passed over
PopulateCachesDenseUnchecked(val_vec, group_vec, sum_cache, prev_cache) ==
    PopulateDenseUncheckedFrom(val_vec, group_vec, sum_cache, prev_cache, 1)

\* the generic pass starting at the second sample
PopulateCachesDenseFromSecond(val_vec, group_vec, sum_cache, prev_cache) ==
    PopulateDenseFrom(val_vec, group_vec, sum_cache, prev_cache, 2)

\* _populate_caches!(val_vec, group_vec, sum_cache, prev_cache), generic method
PopulateCachesDense(val_vec, group_vec, sum_cache, prev_cache) ==
    PopulateDenseFrom(val_vec, group_vec, sum_cache, prev_cache, 1)

RECURSIVE PopulateSparseFrom(_, _, _, _, _, _)
PopulateSparseFrom(inds, vals, group_vec, sum_cache, prev_cache, k) ==
    IF k > Len(inds) THEN Pass(sum_cache, prev_cache, "none")
    ELSE IF inds[k] \notin DOMAIN group_vec THEN Pass(sum_cache, prev_cache, "BoundsError")
    ELSE LET group == group_vec[inds[k]] IN
         IF group \notin DOMAIN sum_cache
         THEN Pass(sum_cache, prev_cache, "BoundsError")
         ELSE PopulateSparseFrom(inds, vals, group_vec,
                  [sum_cache EXCEPT ![group] = FAdd(@, FromInt(vals[k]))],
                  [prev_cache EXCEPT ![group] = @ + 1], k + 1)

\* _populate_caches!(val_vec, group_vec, sum_cache, prev_cache), sparse method
PopulateCachesSparse(val_vec, group_vec, sum_cache, prev_cache) ==
    PopulateSparseFrom(rowvals(val_vec), nonzeros(val_vec), group_vec,
                       sum_cache, prev_cache, 1)

\* _populate_caches!: Julia picks the method by the type of val_vec
PopulateCaches(val_vec, group_vec, sum_cache, prev_cache) ==
    IF IsSparse(val_vec)
    THEN PopulateCachesSparse(val_vec, group_vec, sum_cache, prev_cache)
    ELSE PopulateCachesDense(val_vec, group_vec, sum_cache, prev_cache)

RECURSIVE PopulateLoggedFrom(_, _, _, _, _, _, _)
\* the loop over the stored entries; pcount is min / 10
PopulateLoggedFrom(inds, vals, min, group_vec, sum_cache, prev_cache, k) ==
    IF k > Len(inds) THEN Pass(sum_cache, prev_cache, "none")
    ELSE IF inds[k] \notin DOMAIN group_vec THEN Pass(sum_cache, prev_cache, "BoundsError")
    ELSE LET group == group_vec[inds[k]] IN
         IF group \notin DOMAIN sum_cache
         THEN Pass(sum_cache, prev_cache, "BoundsError")
         ELSE PopulateLoggedFrom(inds, vals, min, group_vec,
                  [sum_cache EXCEPT ![group] = FAdd(@, Log10Q(10 * vals[k] + min, 10))],
                  [prev_cache EXCEPT ![group] = @ + 1], k + 1)

\* the pseudo-count loop with n_zeros taken to be the whole group
AddZeroPcountsAllSamples(min, sum_cache, prev_cache, group_count_cache) ==
    [i \in DOMAIN sum_cache |->
        FAdd(sum_cache[i], FMulInt(Log10Q(min, 10), group_count_cache[i]))]

\* the loop that adds the pseudo-counts of the zero entries, group by group
AddZeroPcounts(min, sum_cache, prev_cache, group_count_cache) ==
    [i \in DOMAIN sum_cache |->
        LET n_zeros == group_count_cache[i] - prev_cache[i]
            total_zero_pcounts_logged == FMulInt(Log10Q(min, 10), n_zeros)
        IN FAdd(sum_cache[i], total_zero_pcounts_logged)]

\* Outcome of the logged pass: it is handed group_count_cache as well
PassLogged(sum_cache, prev_cache, group_count_cache, err) ==
    [sum_cache |-> sum_cache, prev_cache |-> prev_cache,
     group_count_cache |-> group_count_cache, err |-> err]

\* the logged pass with the pseudo-count of an empty vector defaulting to 0
PopulateCachesLoggedDefaultMin(val_vec, group_vec, sum_cache, prev_cache, group_count_cache) ==
    IF ~IsSparse(val_vec)
    THEN PassLogged(sum_cache, prev_cache, group_count_cache, "MethodError")
    ELSE LET inds == rowvals(val_vec)
             vals == nonzeros(val_vec)
             min == IF Len(vals) = 0 THEN 0 ELSE Minimum(vals)
             loop == PopulateLoggedFrom(inds, vals, min, group_vec,
                                        sum_cache, prev_cache, 1)
         IN IF loop.err # "none"
            THEN PassLogged(loop.sum_cache, loop.prev_cache, group_count_cache, loop.err)
            ELSE PassLogged(AddZeroPcounts(min, loop.sum_cache, loop.prev_cache,
                                           group_count_cache),
                            loop.prev_cache, group_count_cache, "none")

\* the logged pass keeping the number of zeros in group_count_cache itself
PopulateCachesLoggedInPlace(val_vec, group_vec, sum_cache, prev_cache, group_count_cache) ==
    IF ~IsSparse(val_vec)
    THEN PassLogged(sum_cache, prev_cache, group_count_cache, "MethodError")
    ELSE LET inds == rowvals(val_vec)
             vals == nonzeros(val_vec)
         IN IF Len(vals) = 0
            THEN PassLogged(sum_cache, prev_cache, group_count_cache, "ArgumentError")
            ELSE LET min == Minimum(vals)
                     loop == PopulateLoggedFrom(inds, vals, min, group_vec,
                                                sum_cache, prev_cache, 1)
                 IN IF loop.err # "none"
                    THEN PassLogged(loop.sum_cache, loop.prev_cache, group_count_cache,
                                    loop.err)
                    ELSE PassLogged(AddZeroPcounts(min, loop.sum_cache, loop.prev_cache,
                                                   group_count_cache),
                                    loop.prev_cache,
                                    [i \in DOMAIN group_count_cache |->
                                        group_count_cache[i] - loop.prev_cache[i]],
                                    "none")

\* _populate_caches_logged!(val_vec, group_vec, sum_cache, prev_cache, group_count_cache):
\* no method for a dense vector; minimum(vals) throws on an empty vals
PopulateCachesLogged(val_vec, group_vec, sum_cache, prev_cache, group_count_cache) ==
    IF ~IsSparse(val_vec)
    THEN PassLogged(sum_cache, prev_cache, group_count_cache, "MethodError")
    ELSE LET inds == rowvals(val_vec)
             vals == nonzeros(val_vec)
         IN IF Len(vals) = 0
            THEN PassLogged(sum_cache, prev_cache, group_count_cache, "ArgumentError")
            ELSE LET min == Minimum(vals)
                     loop == PopulateLoggedFrom(inds, vals, min, group_vec,
                                                sum_cache, prev_cache, 1)
                 IN IF loop.err # "none"
                    THEN PassLogged(loop.sum_cache, loop.prev_cache, group_count_cache,
                                    loop.err)
                    ELSE PassLogged(AddZeroPcounts(min, loop.sum_cache, loop.prev_cache,
                                                   group_count_cache),
                                    loop.prev_cache, group_count_cache, "none")

\* the reset that forgets fill!(prev_cache, 0) and fill!(sum_cache, 0.0)
ResetCachesMeanOnly(caches) ==
    [caches EXCEPT !.mean_cache = Fill(@, Zero)]

\* fill!(mean_cache, 0.0); fill!(sum_cache, 0.0); fill!(prev_cache, 0)
ResetCaches(caches) ==
    [caches EXCEPT !.mean_cache = Fill(@, Zero),
                   !.sum_cache = Fill(@, Zero),
                   !.prev_cache = Fill(@, 0)]

\* the branch on log_vals: the caches after the pass and its exception
Populate(val_vec, group_vec, cs, log_vals) ==
    IF log_vals
    THEN LET p == PopulateCachesLogged(val_vec, group_vec, cs.sum_cache, cs.prev_cache,
                                       cs.group_count_cache)
         IN [caches |-> [cs EXCEPT !.sum_cache = p.sum_cache,
                                   !.prev_cache = p.prev_cache,
                                   !.group_count_cache = p.group_count_cache],
             err |-> p.err]
    ELSE LET p == PopulateCaches(val_vec, group_vec, cs.sum_cache, cs.prev_cache)
         IN [caches |-> [cs EXCEPT !.sum_cache = p.sum_cache,
                                   !.prev_cache = p.prev_cache],
             err |-> p.err]

\* the means taken over the observed counts
MeanCacheOverObserved(cs) ==
    [g \in DOMAIN cs.mean_cache |-> FDivInt(cs.sum_cache[g], cs.prev_cache[g])]

\* sum_cache ./ group_count_cache
MeanCache(cs) ==
    [g \in DOMAIN cs.mean_cache |-> FDivInt(cs.sum_cache[g], cs.group_count_cache[g])]

\* groupby_mean!(val_vec, group_vec, caches; log_vals): the caches it leaves
\* and the exception it raised ("none" when it returned).
GroupbyMean(val_vec, group_vec, caches, log_vals) ==
    LET pop == Populate(val_vec, group_vec, ResetCaches(caches), log_vals)
    IN IF pop.err # "none" THEN pop
       ELSE [caches |-> [pop.caches EXCEPT !.mean_cache = MeanCache(pop.caches)],
             err |-> "none"]

\* ------------------------------------------------------ _fast_cor_binned
\* sum(!iszero, prev_cache) and sum(prev_cache)
CountNonZero(prev_cache) == Cardinality({g \in DOMAIN prev_cache : prev_cache[g] # 0})
SumInt(prev_cache) == SumSeq(prev_cache, 1)

\* minimum(mean_cache[.!iszero.(mean_cache)]) of a non-empty selection:
\* NaN when a NaN is among the selected means
MinimumNonZero(mean_cache) ==
    LET sel == {g \in DOMAIN mean_cache : ~IsZero(mean_cache[g])}
    IN IF \E g \in sel : IsNaN(mean_cache[g]) THEN NaN
       ELSE mean_cache[CHOOSE g \in sel :
                \A h \in sel : ~QLess(mean_cache[h], mean_cache[g])]

\* the pseudo-count of the means
MeanPcount(mean_cache) ==
    IF \E g \in DOMAIN mean_cache : IsZero(mean_cache[g])
    THEN FDivInt(MinimumNonZero(mean_cache), 10)
    ELSE Zero

\* mean_cache .= log10.(mean_cache .+ pcount)
LogMeans(mean_cache) ==
    LET pcount == MeanPcount(mean_cache)
    IN [g \in DOMAIN mean_cache |-> FLog10(FAdd(mean_cache[g], pcount))]

\* cor(x, y): the Pearson coefficient is not evaluated; it is NaN when an
\* entry of x is NaN or when there is a single pair, and otherwise stands
\* for the coefficient of the two vectors.
Cor(x, y) ==
    IF Len(x) < 2 \/ \E g \in DOMAIN x : ~IsFin(x[g]) THEN NaN
    ELSE [k |-> "cor", x |-> x, y |-> y]

CorResult(stat, n_bins_obs, prev) ==
    [cor |-> stat, n_bins_obs |-> n_bins_obs, prev |-> prev]

\* no tuple was returned (groupby_mean! returns nothing; an exception was raised)
NoCor == [k |-> "none"]
NoResult == [cor |-> NoCor, n_bins_obs |-> -1, prev |-> -1]

\* the selection mean_cache[.!iszero.(mean_cache)] is empty although a mean
\* is zero: minimum throws
NoMeanForPcount(mean_cache) ==
    /\ \E g \in DOMAIN mean_cache : IsZero(mean_cache[g])
    /\ \A g \in DOMAIN mean_cache : IsZero(mean_cache[g])

\* what follows the call of groupby_mean! in _fast_cor_binned, agg being the
\* outcome of that call
CorOfMeans(agg, bins_srt, log_means) ==
    IF agg.err # "none"
    THEN [caches |-> agg.caches, err |-> agg.err, ret |-> NoResult]
    ELSE IF log_means /\ NoMeanForPcount(agg.caches.mean_cache)
    THEN [caches |-> agg.caches, err |-> "ArgumentError", ret |-> NoResult]
    ELSE LET n_bins_obs == CountNonZero(agg.caches.prev_cache)
             mean_cache == IF log_means THEN LogMeans(agg.caches.mean_cache)
                           ELSE agg.caches.mean_cache
             stat == Cor(mean_cache, bins_srt)
             prev == SumInt(agg.caches.prev_cache)
         IN [caches |-> [agg.caches EXCEPT !.mean_cache = mean_cache],
             err |-> "none", ret |-> CorResult(stat, n_bins_obs, prev)]

\* the aggregation of _fast_cor_binned with the raw values log-transformed
CorOfLoggedAggregate(val_vec, v2_binned, bins_srt, caches, log_means) ==
    CorOfMeans(GroupbyMean(val_vec, v2_binned, caches, TRUE), bins_srt, log_means)

\* the branch of _fast_cor_binned that aggregates and correlates
CorOfAggregate(val_vec, v2_binned, bins_srt, caches, log_means) ==
    CorOfMeans(GroupbyMean(val_vec, v2_binned, caches, FALSE), bins_srt, log_means)

\* _fast_cor_binned without the all-zero short-circuit
FastCorBinnedAlwaysAggregate(val_vec, v2_binned, bins_srt, caches, log_means) ==
    CorOfAggregate(val_vec, v2_binned, bins_srt, caches, log_means)

\* _fast_cor_binned(val_vec, v2_binned, bins_srt, caches; log_means): the
\* caches it leaves, the exception it raised and the tuple it returned.
FastCorBinned(val_vec, v2_binned, bins_srt, caches, log_means) ==
    IF AllZero(val_vec)
    THEN [caches |-> caches, err |-> "none", ret |-> CorResult(NaN, 0, 0)]
    ELSE CorOfAggregate(val_vec, v2_binned, bins_srt, caches, log_means)

\* ------------------------------------------------------ the state machine
VARIABLES
    caches,      \* the NamedTuple of accumulator arrays, reused by every call
    group_vec,   \* lats_binned_indmap: the group of every sample
    bins_srt,    \* the per-bin reference values
    otu_sparse,  \* the OTU matrix is a sparse matrix (its columns are sparse views)
    call,        \* the last call made on the caches: its arguments and its exception
    ret,         \* what the last call returned
    dirty        \* the last call started on accumulators a previous call had written

\* The other procedures of the notebooks, each with the record of its locals
VARIABLES
    lat,         \* compute_latitudinal_abundance_cors
    byenv,       \* compute_latitudinal_abundance_cors_by_env
    workers,     \* aggregation calls running side by side
    run,         \* run_semantic_clustering and the output file
    agg,         \* sum_abunds_per_otu_and_cclust and convert_to_mean_abunds
    rel          \* compute_term_relationships

vars == <<caches, group_vec, bins_srt, otu_sparse, call, ret, dirty,
          lat, byenv, workers, run, agg, rel>>

\* a procedure that is not running
Off == [pc |-> "off"]
OthersOff == byenv = Off /\ workers = Off /\ run = Off /\ agg = Off /\ rel = Off

\* The inputs: value sequences of n samples with entries up to max, and the
\* group of every sample
ValueSeqs(n, max) == [1..n -> 0..max]
\* view(otu_mat, :, i): the columns a matrix of that storage type can hold
Columns(n, max, sparse) ==
    IF sparse THEN {Sparse(v) : v \in ValueSeqs(n, max)}
    ELSE {Dense(v) : v \in ValueSeqs(n, max)}
GroupSeqs(n) == [1..n -> 1..NGroups]

\* group vectors with an id outside 1..G at one position
BadGroupVecs(gv) ==
    {[gv EXCEPT ![i] = b] : i \in DOMAIN gv, b \in {0, NGroups + 1}}

\* caches = (abunds_cache=zeros(n_samp), mean_cache=zeros(n_bins), ...)
NewCaches(n_samp, n_bins) ==
    [abunds_cache |-> ZerosF(n_samp), mean_cache |-> ZerosF(n_bins),
     sum_cache |-> ZerosF(n_bins), group_count_cache |-> ZerosI(n_bins),
     prev_cache |-> ZerosI(n_bins)]

RECURSIVE CountGroupsFrom(_, _, _)
CountGroupsFrom(lats_binned_indmap, group_count_cache, i) ==
    IF i > Len(lats_binned_indmap) THEN group_count_cache
    ELSE CountGroupsFrom(lats_binned_indmap,
             [group_count_cache EXCEPT ![lats_binned_indmap[i]] = @ + 1], i + 1)

\* the loop that populates the per-bin sample counts
PopulateGroupCounts(cs, lats_binned_indmap) ==
    [cs EXCEPT !.group_count_cache = CountGroupsFrom(lats_binned_indmap, @, 1)]

\* the reference value of every bin: ascending and non-negative
BinsSrt == [g \in 1..NGroups |-> g - 1]

NoCall == [op |-> "none", val_vec |-> Dense(<< >>), group_vec |-> << >>,
           log |-> FALSE, err |-> "none"]

\* some accumulator entry is not the zero a fresh array holds
Written(cs) ==
    \/ \E g \in DOMAIN cs.sum_cache : cs.sum_cache[g] # Zero
    \/ \E g \in DOMAIN cs.mean_cache : cs.mean_cache[g] # Zero
    \/ \E g \in DOMAIN cs.prev_cache : cs.prev_cache[g] # 0

\* The state after the caches are allocated and the per-bin sample counts
\* are populated, for an analysis of n samples
Setup(n) ==
    /\ group_vec \in GroupSeqs(n)
    /\ bins_srt = BinsSrt
    /\ otu_sparse \in BOOLEAN
    /\ caches = PopulateGroupCounts(NewCaches(n, NGroups), group_vec)
    /\ call = NoCall
    /\ ret = NoResult
    /\ dirty = FALSE
    /\ lat = Off
    /\ OthersOff

\* groupby_mean!(val_vec, gv, caches; log_vals)
GroupbyMeanStep(val_vec, gv, log_vals) ==
    \E r \in {GroupbyMean(val_vec, gv, caches, log_vals)} :
       /\ caches' = r.caches
       /\ call' = [op |-> "groupby_mean", val_vec |-> val_vec, group_vec |-> gv,
                   log |-> log_vals, err |-> r.err]
       /\ ret' = NoResult
       /\ dirty' = Written(caches)
       /\ UNCHANGED <<group_vec, bins_srt, otu_sparse>>
       /\ UNCHANGED <<byenv, workers, run, agg, rel>>

\* _fast_cor_binned(view(otu_mat, :, i), lats_binned_indmap, bins_srt, caches)
\* of the analysis loop (log_means = TRUE there), or with log_means given
FastCorBinnedStep(val_vec, log_means) ==
    \E r \in {FastCorBinned(val_vec, group_vec, bins_srt, caches, log_means)} :
       /\ caches' = r.caches
       /\ call' = [op |-> "fast_cor_binned", val_vec |-> val_vec,
                   group_vec |-> group_vec, log |-> log_means, err |-> r.err]
       /\ ret' = r.ret
       /\ dirty' = Written(caches)
       /\ UNCHANGED <<group_vec, bins_srt, otu_sparse>>
       /\ UNCHANGED <<byenv, workers, run, agg, rel>>

\* An exception is caught nowhere: it ends the analysis.
Running == call.err = "none"

\* --- Spec: any sequence of calls on the same caches, one feature after another
Init == Setup(SeqSamp)

CallGroupbyMean ==
    /\ Running
    /\ UNCHANGED lat
    /\ \E val_vec \in Columns(SeqSamp, SeqMaxVal, otu_sparse), log_vals \in BOOLEAN :
          GroupbyMeanStep(val_vec, group_vec, log_vals)

CallFastCorBinned ==
    /\ Running
    /\ UNCHANGED lat
    /\ \E val_vec \in Columns(SeqSamp, SeqMaxVal, otu_sparse) :
          FastCorBinnedStep(val_vec, TRUE)

Next == CallGroupbyMean \/ CallFastCorBinned

Spec == Init /\ [][Next]_vars

\* --- SpecCall: one call on freshly set up caches, over larger inputs, the
\* group vector of groupby_mean! possibly holding an id outside 1..G
InitCall == Setup(NSamp)

FirstGroupbyMean ==
    /\ call.op = "none"
    /\ UNCHANGED lat
    /\ \E val_vec \in Columns(NSamp, MaxVal, otu_sparse),
          gv \in {group_vec} \cup BadGroupVecs(group_vec), log_vals \in BOOLEAN :
          GroupbyMeanStep(val_vec, gv, log_vals)

FirstFastCorBinned ==
    /\ call.op = "none"
    /\ UNCHANGED lat
    /\ \E val_vec \in Columns(NSamp, MaxVal, otu_sparse), log_means \in BOOLEAN :
          FastCorBinnedStep(val_vec, log_means)

NextCall == FirstGroupbyMean \/ FirstFastCorBinned

SpecCall == InitCall /\ [][NextCall]_vars

\* ------------------------------------------------------------ properties
\* Vector(val_vec): the entries of a vector, stored or not
Entries(val_vec) == [i \in 1..Length(val_vec) |-> Elem(val_vec, i)]

\* the same entries in the other storage
OtherStorage(val_vec) ==
    IF IsSparse(val_vec) THEN Dense(Entries(val_vec)) ELSE Sparse(Entries(val_vec))

\* the positions a pass visits
Visited(val_vec) ==
    IF IsSparse(val_vec) THEN {val_vec.nzind[k] : k \in DOMAIN val_vec.nzind}
    ELSE 1..Length(val_vec)

NonZeroAt(val_vec) == {i \in 1..Length(val_vec) : Elem(val_vec, i) # 0}
SamplesOf(gv, g) == {i \in DOMAIN gv : gv[i] = g}
Total(val_vec) == SumSeq(Entries(val_vec), 1)

RECURSIVE FSumFrom(_, _)
FSumFrom(a, i) == IF i > Len(a) THEN Zero ELSE FAdd(a[i], FSumFrom(a, i + 1))

\* the last call was groupby_mean! / _fast_cor_binned and it returned
Aggregated == call.op = "groupby_mean" /\ call.err = "none"
Correlated == call.op = "fast_cor_binned" /\ call.err = "none"
\* the call was given the group vector the group counts were populated from
OwnGroups == call.group_vec = group_vec

AccumulatorsOf(cs) == <<cs.sum_cache, cs.prev_cache, cs.mean_cache>>
ZeroedCaches(cs) ==
    [cs EXCEPT !.sum_cache = ZerosF(Len(cs.sum_cache)),
               !.prev_cache = ZerosI(Len(cs.prev_cache)),
               !.mean_cache = ZerosF(Len(cs.mean_cache))]

\* C1: groupby_mean! with log_vals = false leaves the same sum_cache,
\* prev_cache and mean_cache for a dense vector and for its sparse
\* representation.  (Violated: the generic pass counts every sample in
\* prev_cache, the sparse pass only the stored non-zero ones.)
C1_SparseDenseEquivalence ==
    (Aggregated /\ ~call.log /\ OwnGroups) =>
        AccumulatorsOf(GroupbyMean(OtherStorage(call.val_vec), call.group_vec,
                                   ZeroedCaches(caches), FALSE).caches)
            = AccumulatorsOf(caches)

\* C2: whatever calls came before, a groupby_mean! call leaves the
\* accumulators (and raises the exception) the same call leaves on freshly
\* zeroed caches with the same group_count_cache.
C2_NoLeakage ==
    call.op = "groupby_mean" =>
        LET fresh == GroupbyMean(call.val_vec, call.group_vec, ZeroedCaches(caches),
                                 call.log)
        IN /\ AccumulatorsOf(caches) = AccumulatorsOf(fresh.caches)
           /\ call.err = fresh.err

\* a groupby_mean! call that started on accumulators an earlier call had
\* written, and that left other values than zeros
C2_Witness ==
    /\ Aggregated /\ dirty
    /\ \E g \in DOMAIN caches.sum_cache : caches.sum_cache[g] # Zero

\* C3: after every completed groupby_mean! call, mean[g] is sum[g] divided by
\* group_size[g] for every group g: mean[g] * group_size[g] = sum[g] when
\* group_size[g] > 0, and mean[g] is NaN when group_size[g] = 0.
C3_MeanIsSumOverGroupSize ==
    Aggregated =>
        \A g \in DOMAIN caches.mean_cache :
            IF caches.group_count_cache[g] = 0
            THEN IsNaN(caches.mean_cache[g])
            ELSE /\ IsFin(caches.mean_cache[g])
                 /\ FMulInt(caches.mean_cache[g], caches.group_count_cache[g])
                        = caches.sum_cache[g]

\* a completed call with an empty group and a group whose mean is no integer
C3_Witness ==
    /\ Aggregated /\ dirty
    /\ \E g \in DOMAIN caches.mean_cache : caches.group_count_cache[g] = 0
    /\ \E g \in DOMAIN caches.mean_cache : caches.mean_cache[g].d > 1

\* C4: when every group has samples and group_count_cache was populated from
\* the group vector of the call, groupby_mean! without log transform leaves
\* SUM mean[g] * group_size[g] = SUM sum_cache[g] = the sum of all values.
C4_Conservation ==
    (/\ Aggregated /\ ~call.log /\ OwnGroups
     /\ \A g \in DOMAIN caches.group_count_cache : caches.group_count_cache[g] > 0) =>
        /\ FSumFrom([g \in DOMAIN caches.mean_cache |->
                        FMulInt(caches.mean_cache[g], caches.group_count_cache[g])], 1)
               = FromInt(Total(call.val_vec))
        /\ FSumFrom(caches.sum_cache, 1) = FromInt(Total(call.val_vec))

\* every group has samples, two groups hold different non-zero sums and a
\* mean is no integer
C4_Witness ==
    /\ Aggregated /\ ~call.log /\ OwnGroups
    /\ \A g \in DOMAIN caches.group_count_cache : caches.group_count_cache[g] > 0
    /\ \E g, h \in DOMAIN caches.sum_cache :
          /\ caches.sum_cache[g] # Zero /\ caches.sum_cache[h] # Zero
          /\ caches.sum_cache[g] # caches.sum_cache[h]
    /\ \E g \in DOMAIN caches.mean_cache : caches.mean_cache[g].d > 1

\* C5: no call of groupby_mean! (either log setting) or _fast_cor_binned
\* changes an entry of group_count_cache.
C5_GroupCountsReadOnly ==
    [][caches'.group_count_cache = caches.group_count_cache]_vars

\* a logged groupby_mean! call has completed after earlier calls, having
\* inferred zeros from the group counts
C5_Witness ==
    /\ Aggregated /\ call.log /\ dirty
    /\ \E g \in DOMAIN caches.prev_cache :
          caches.prev_cache[g] # 0 /\ caches.prev_cache[g] < caches.group_count_cache[g]

\* C6: _fast_cor_binned on a vector of zeros returns cor = NaN,
\* n_bins_obs = 0, prev = 0, raises nothing and leaves every array of the
\* caches as it was.
C6_AllZeroShortCircuit ==
    [][(call'.op = "fast_cor_binned" /\ AllZero(call'.val_vec)) =>
          /\ ret' = CorResult(NaN, 0, 0)
          /\ call'.err = "none"
          /\ caches' = caches]_vars

\* the short-circuit was taken on caches that hold an earlier call's values
C6_Witness ==
    /\ Correlated /\ AllZero(call.val_vec)
    /\ ret = CorResult(NaN, 0, 0)
    /\ \E g \in DOMAIN caches.prev_cache : caches.prev_cache[g] # 0

\* C7: for a vector that is not all zero, _fast_cor_binned returns prev = the
\* number of non-zero observations and n_bins_obs = the number of groups with
\* a non-zero observation, dense or sparse.  (Violated for a dense vector:
\* the generic pass counts every sample.)
C7_PrevCountsNonZeros ==
    (Correlated /\ ~AllZero(call.val_vec)) =>
        /\ ret.prev = Cardinality(NonZeroAt(call.val_vec))
        /\ ret.n_bins_obs =
               Cardinality({g \in DOMAIN caches.prev_cache :
                               SamplesOf(call.group_vec, g) \cap NonZeroAt(call.val_vec) # {}})

\* the smallest non-zero entry
MinNonZero(val_vec) ==
    CHOOSE x \in {Elem(val_vec, i) : i \in NonZeroAt(val_vec)} :
        \A i \in NonZeroAt(val_vec) : x <= Elem(val_vec, i)

RECURSIVE LogSumOfGroup(_, _, _, _, _)
\* SUM of log10(value + min/10) over the samples i.. of group g, one by one
LogSumOfGroup(val_vec, gv, g, min, i) ==
    IF i > Length(val_vec) THEN Zero
    ELSE IF gv[i] # g THEN LogSumOfGroup(val_vec, gv, g, min, i + 1)
    ELSE FAdd(Log10Q(10 * Elem(val_vec, i) + min, 10),
              LogSumOfGroup(val_vec, gv, g, min, i + 1))

\* C8: after groupby_mean! with log_vals = true on a sparse vector, with
\* p = (smallest non-zero value) / 10, sum[g] is the sum of log10(value + p)
\* over all samples of g, every unstored sample contributing log10(p).
C8_LogShortcutLaw ==
    (Aggregated /\ call.log /\ OwnGroups) =>
        \A g \in DOMAIN caches.sum_cache :
            caches.sum_cache[g] =
                LogSumOfGroup(call.val_vec, call.group_vec, g, MinNonZero(call.val_vec), 1)

\* a group with a stored value and two or more unstored zeros
C8_Witness ==
    /\ Aggregated /\ call.log /\ OwnGroups
    /\ \E g \in DOMAIN caches.sum_cache :
          /\ caches.prev_cache[g] >= 1
          /\ caches.group_count_cache[g] - caches.prev_cache[g] >= 2

\* C9: groupby_mean! with log_vals = true on a vector without non-zero
\* values fails (on a sparse vector with the ArgumentError of the minimum of
\* an empty collection) and leaves no NaN or other value in the accumulators.
C9_LogOfAllZeroFails ==
    (call.op = "groupby_mean" /\ call.log /\ AllZero(call.val_vec)) =>
        /\ call.err # "none"
        /\ IsSparse(call.val_vec) => call.err = "ArgumentError"
        /\ AccumulatorsOf(caches) = AccumulatorsOf(ZeroedCaches(caches))

\* the logged call on a sparse vector without stored values has failed
C9_Witness ==
    /\ call.op = "groupby_mean" /\ call.log /\ IsSparse(call.val_vec)
    /\ AllZero(call.val_vec) /\ call.err = "ArgumentError"

\* C10: groupby_mean! given a group vector with an id outside 1..G at a
\* visited position fails with a BoundsError (whenever a pass is entered at
\* all) and never computes the means.
C10_BadGroupIdFailsFast ==
    (/\ call.op = "groupby_mean"
     /\ \E i \in Visited(call.val_vec) : call.group_vec[i] \notin 1..NGroups) =>
        /\ call.err # "none"
        /\ (IsSparse(call.val_vec) \/ ~call.log) => call.err = "BoundsError"
        /\ caches.mean_cache = ZerosF(NGroups)

\* the pass was stopped at a bad id after it had added earlier samples
C10_Witness ==
    /\ call.op = "groupby_mean" /\ call.err = "BoundsError"
    /\ \E i \in Visited(call.val_vec) : call.group_vec[i] \notin 1..NGroups
    /\ \E g \in DOMAIN caches.sum_cache : caches.sum_cache[g] # Zero

\* the least of the non-zero group means (NaN when one of them is NaN)
LeastNonZeroMean(means) ==
    LET nonzero == {g \in DOMAIN means : ~IsZero(means[g])}
    IN IF \E g \in nonzero : IsNaN(means[g]) THEN NaN
       ELSE means[CHOOSE g \in nonzero :
                \A h \in nonzero : means[h] = means[g] \/ QLess(means[g], means[h])]

\* C15: _fast_cor_binned aggregates the raw values without log transform
\* (sum_cache and prev_cache are those of groupby_mean! with log_vals = false)
\* and, when log_means is set, replaces every group mean m by log10(m + p),
\* p being 0 if no group mean is zero and otherwise (the least non-zero group
\* mean) / 10; without log_means the means are left as aggregated.
C15_TwoStageLogRule ==
    (Correlated /\ ~AllZero(call.val_vec)) =>
        LET raw == GroupbyMean(call.val_vec, call.group_vec,
                               ZeroedCaches(caches), FALSE).caches
            means == raw.mean_cache
            p == IF \A g \in DOMAIN means : ~IsZero(means[g]) THEN Zero
                 ELSE FDivInt(LeastNonZeroMean(means), 10)
        IN /\ caches.sum_cache = raw.sum_cache
           /\ caches.prev_cache = raw.prev_cache
           /\ call.log =>
                 \A g \in DOMAIN means :
                    caches.mean_cache[g] = FLog10(FAdd(means[g], p))
           /\ ~call.log => caches.mean_cache = means

\* a call with log_means on a vector that leaves one group mean zero and
\* another one positive: the pseudo-count is positive and the means are logged
C15_Witness ==
    /\ Correlated /\ call.log
    /\ \E g \in DOMAIN caches.sum_cache :
          caches.sum_cache[g] = Zero /\ caches.group_count_cache[g] > 0
    /\ \E g \in DOMAIN caches.sum_cache : caches.sum_cache[g] # Zero
    /\ \A g \in DOMAIN caches.mean_cache : IsFin(caches.mean_cache[g])

\* ------------------------------------ compute_latitudinal_abundance_cors
MaxFeat == 2    \* columns (OTUs) of the matrix of one analysis

\* the bin labels of the samples: latitudes (Float64, the lower edges
\* make_bins returns), a negative one among them
Labels == {FromInt(l) : l \in (-1)..(NGroups - 1)}

\* sort(unique(lats_binned)) of a vector of floats without NaN: the distinct
\* labels in ascending order
RECURSIVE SortLabels(_)
SortLabels(S) ==
    IF S = {} THEN << >>
    ELSE LET least == CHOOSE x \in S : \A y \in S : ~QLess(y, x)
         IN <<least>> \o SortLabels(S \ {least})

\* the elements of a set of integers in ascending order
RECURSIVE SortSet(_)
SortSet(S) ==
    IF S = {} THEN << >>
    ELSE LET least == CHOOSE x \in S : \A y \in S : x <= y
         IN <<least>> \o SortSet(S \ {least})
Unique(s) == {s[i] : i \in DOMAIN s}

\* the map numbering the bins from zero
IndMapFromZero(srt) ==
    [bin \in Unique(srt) |-> (CHOOSE i \in DOMAIN srt : srt[i] = bin) - 1]

\* indmap = Dict(bin => i for (i, bin) in enumerate(bins_srt))
IndMap(srt) ==
    [bin \in Unique(srt) |-> CHOOSE i \in DOMAIN srt : srt[i] = bin]

\* div(a, b) of non-negative a: the quotient truncated towards zero
Div(a, b) == IF b > 0 THEN a \div b ELSE -(a \div (-b))

\* The head of compute_latitudinal_abundance_cors: the assertion on the
\* latitudes, the sorted bins, the threshold on the observed bins, the group
\* of every sample and the caches with the per-bin sample counts.
LatPrepare(lats_binned, bins_obs_min_factor) ==
    LET srt == SortLabels(Unique(lats_binned))
        n_bins == Len(srt)
        indmap == IndMap(srt)
        lats_binned_indmap == [i \in DOMAIN lats_binned |-> indmap[lats_binned[i]]]
        failed(e) == [err |-> e, bins_srt |-> << >>, n_bins |-> 0,
                      n_bins_obs_min |-> 0, lats_binned_indmap |-> << >>,
                      caches |-> NewCaches(0, 0)]
    IN IF \E i \in DOMAIN lats_binned : QLess(lats_binned[i], Zero)
       THEN failed("AssertionError")
       ELSE IF bins_obs_min_factor = 0 THEN failed("DivideError")
       ELSE [err |-> "none", bins_srt |-> srt, n_bins |-> n_bins,
             n_bins_obs_min |-> IF bins_obs_min_factor # -1
                                THEN Div(n_bins, bins_obs_min_factor) ELSE 0,
             lats_binned_indmap |-> lats_binned_indmap,
             caches |-> PopulateGroupCounts(NewCaches(Len(lats_binned), n_bins),
                                            lats_binned_indmap)]

\* (;oid, sub_cor_res..., n_obs=n_bins)
CorRow(oid, sub_cor_res, n_bins) ==
    [oid |-> oid, cor |-> sub_cor_res.cor, n_bins_obs |-> sub_cor_res.n_bins_obs,
     prev |-> sub_cor_res.prev, n_obs |-> n_bins]

\* FlashWeave.fz_pval(cor, n_obs, 0) and MultipleTesting.adjust(pvals,
\* BenjaminiHochberg()) are not evaluated: a p-value stands for the test of its
\* coefficient, an adjusted p-value for its rank in the vector it was
\* adjusted with.  adjust wraps the vector in PValues, which takes the
\* extrema of the values: on an empty vector it raises.
FzPval(stat, n_obs) == [k |-> "fz_pval", cor |-> stat, n_obs |-> n_obs]
Adjust(pvals) ==
    [err |-> IF pvals = << >> THEN "ArgumentError" ELSE "none",
     pval_adj |-> [i \in DOMAIN pvals |-> [k |-> "bh", pvals |-> pvals, i |-> i]]]

\* (cor_df.prev .< prev_min) .| (cor_df.n_bins_obs .< n_bins_obs_min)
FiltMask(row, prev_min, n_bins_obs_min) ==
    row.prev < prev_min \/ row.n_bins_obs < n_bins_obs_min

\* [FlashWeave.fz_pval(x.cor, x.n_obs, 0) for x in eachrow(cor_df)]
Pvals(cor_df) == [i \in DOMAIN cor_df |-> FzPval(cor_df[i].cor, cor_df[i].n_obs)]

\* cor_df[!, :pval] = [...] and, with do_FDR, cor_df[!, :pval_adj] = adjust(...)
WithPvals(cor_df, do_FDR) ==
    LET pval == Pvals(cor_df)
        pval_adj == Adjust(pval).pval_adj
    IN [i \in DOMAIN cor_df |->
          [oid |-> cor_df[i].oid, cor |-> cor_df[i].cor, pval |-> pval[i],
           pval_adj |-> IF do_FDR THEN pval_adj[i] ELSE NoCor,
           n_obs |-> cor_df[i].n_obs, prev |-> cor_df[i].prev,
           n_bins_obs |-> cor_df[i].n_bins_obs]]

\* The tail of compute_latitudinal_abundance_cors: the rows of the unreliable
\* OTUs are removed, the others get their p-values; with do_FDR the
\* adjustment raises when no row is left
FilterRows(cor_res, prev_min, n_bins_obs_min, do_FDR) ==
    LET unreliable(row) == FiltMask(row, prev_min, n_bins_obs_min)
        reliable(row) == ~FiltMask(row, prev_min, n_bins_obs_min)
    IN [err |-> IF do_FDR THEN Adjust(Pvals(SelectSeq(cor_res, reliable))).err
                ELSE "none",
        test_df |-> WithPvals(SelectSeq(cor_res, reliable), do_FDR),
        unrel_df |-> SelectSeq(cor_res, unreliable)]

\* The map over no column yields an empty vector.  Its element type is what
\* the compiler inferred for the body of the map: with the type of the rows
\* the table has their columns, without it (inferred FALSE) the table has no
\* column and reading cor_df.prev raises.
NoColumnRaises(cor_res, inferred) == cor_res = << >> /\ ~inferred

\* --- SpecLat: compute_latitudinal_abundance_cors(otu_matn, lats_binned;
\* prev_min, bins_obs_min_factor, do_FDR), the row keys of matrix and
\* latitudes being the same.  The columns are
\* drawn as the loop reaches them; lat.otu_mat holds the ones it has seen.
Factors == {-2, -1, 0, 1, 2}
PrevMins == 0..2

\* the columns of the matrix: an OTU is absent from a sample or present once
LatColumns == Columns(SeqSamp, 1, otu_sparse)

LatLocals(lats_binned) ==
    [pc |-> "start", lats_binned |-> lats_binned, otu_mat |-> << >>,
     bins_obs_min_factor |-> -1, n_bins |-> 0, n_bins_obs_min |-> 0,
     prev_min |-> 0, cor_res |-> << >>, test_df |-> << >>, unrel_df |-> << >>,
     err |-> "none"]

InitLat ==
    /\ lat \in {LatLocals(lats_binned) : lats_binned \in [1..SeqSamp -> Labels]}
    /\ otu_sparse \in BOOLEAN
    /\ caches = NewCaches(0, 0)
    /\ group_vec = << >>
    /\ bins_srt = << >>
    /\ call = NoCall
    /\ ret = NoResult
    /\ dirty = FALSE
    /\ OthersOff

\* the statements up to the loop over the columns
LatSetup ==
    /\ lat.pc = "start"
    /\ \E bins_obs_min_factor \in Factors :
       \E r \in {LatPrepare(lat.lats_binned, bins_obs_min_factor)} :
          /\ lat' = [lat EXCEPT !.pc = IF r.err = "none" THEN "map" ELSE "error",
                                !.err = r.err,
                                !.bins_obs_min_factor = bins_obs_min_factor,
                                !.n_bins = r.n_bins,
                                !.n_bins_obs_min = r.n_bins_obs_min]
          /\ caches' = r.caches
          /\ group_vec' = r.lats_binned_indmap
          /\ bins_srt' = r.bins_srt
    /\ UNCHANGED <<otu_sparse, call, ret, dirty, byenv, workers, run, agg, rel>>

\* one round of the map: _fast_cor_binned on the next column, on the shared caches
LatMap ==
    /\ lat.pc = "map"
    /\ Len(lat.cor_res) < MaxFeat
    /\ \E val_vec \in LatColumns :
          /\ FastCorBinnedStep(val_vec, TRUE)
          /\ lat' = [lat EXCEPT
                       !.pc = IF call'.err = "none" THEN "map" ELSE "error",
                       !.err = call'.err,
                       !.otu_mat = Append(@, val_vec),
                       !.cor_res = IF call'.err = "none"
                                   THEN Append(@, CorRow(Len(@) + 1, ret', lat.n_bins))
                                   ELSE @]

\* the statements after the loop, once the last column has been processed;
\* for a matrix without columns the table has no row, or has no column
\* named prev; with do_FDR the adjustment raises when no row is reliable
LatFilter ==
    /\ lat.pc = "map"
    /\ \E prev_min \in PrevMins, do_FDR \in BOOLEAN, inferred \in BOOLEAN :
       \E r \in {FilterRows(lat.cor_res, prev_min, lat.n_bins_obs_min, do_FDR)} :
          lat' = IF NoColumnRaises(lat.cor_res, inferred)
                 THEN [lat EXCEPT !.pc = "error", !.err = "ArgumentError",
                                  !.prev_min = prev_min]
                 ELSE IF r.err # "none"
                 THEN [lat EXCEPT !.pc = "error", !.err = r.err,
                                  !.prev_min = prev_min]
                 ELSE [lat EXCEPT !.pc = "done", !.prev_min = prev_min,
                                  !.test_df = r.test_df, !.unrel_df = r.unrel_df]
    /\ UNCHANGED <<caches, group_vec, bins_srt, otu_sparse, call, ret, dirty>>
    /\ UNCHANGED <<byenv, workers, run, agg, rel>>

NextLat == LatSetup \/ LatMap \/ LatFilter

SpecLat == InitLat /\ [][NextLat]_vars

\* the object ids of the rows of a table
Oids(df) == {df[i].oid : i \in DOMAIN df}

\* floor(a / b) for a >= 0 and b # 0
FloorDiv(a, b) == IF b > 0 THEN a \div b ELSE -((a + (-b) - 1) \div (-b))

\* the groups in which a column has a non-zero value
ObservedGroups(val_vec, gv) == {gv[i] : i \in NonZeroAt(val_vec)}

\* C19: after the head of compute_latitudinal_abundance_cors the sorted bins
\* are the distinct labels in strictly ascending order, the group of every
\* sample is the position of its label (an order-preserving bijection onto
\* 1..n_bins), every group id lies in 1..n_bins, every group count is at least
\* 1, the group counts sum to the number of samples, and no aggregation call
\* of the loop raised an exception or left a NaN mean (a zero group size).
C19_GroupIndexInvariant ==
    lat.pc \in {"map", "done"} =>
        /\ Len(bins_srt) = lat.n_bins
        /\ Unique(bins_srt) = Unique(lat.lats_binned)
        /\ \A g, h \in DOMAIN bins_srt : g < h => QLess(bins_srt[g], bins_srt[h])
        /\ DOMAIN group_vec = DOMAIN lat.lats_binned
        /\ \A i \in DOMAIN group_vec :
              /\ group_vec[i] \in 1..lat.n_bins
              /\ bins_srt[group_vec[i]] = lat.lats_binned[i]
        /\ Len(caches.group_count_cache) = lat.n_bins
        /\ \A g \in 1..lat.n_bins :
              caches.group_count_cache[g] = Cardinality(SamplesOf(group_vec, g))
        /\ \A g \in 1..lat.n_bins : caches.group_count_cache[g] >= 1
        /\ SumInt(caches.group_count_cache) = Len(lat.lats_binned)
        /\ call.err = "none"
        /\ \A g \in DOMAIN caches.mean_cache : ~IsNaN(caches.mean_cache[g])

\* two columns were aggregated over two bins, the labels not being 1..n_bins
C19_Witness ==
    /\ lat.pc = "map" /\ Len(lat.cor_res) = 2 /\ lat.n_bins = 2
    /\ QLess(lat.lats_binned[2], lat.lats_binned[1])
    /\ ~AllZero(call.val_vec)

\* C11: when compute_latitudinal_abundance_cors has returned, every feature
\* is in exactly one of test_df and unrel_df, each once, and it is in unrel_df
\* if and only if prev < prev_min or n_bins_obs < floor(n_bins /
\* bins_obs_min_factor) (threshold 0 when the factor is -1); a feature
\* observed, that is with non-zero values, in a single group is in unrel_df
\* and not in test_df when the threshold is 2 or more.  (Violated: for a
\* dense matrix the generic _populate_caches! counts every sample, zeros
\* included, so n_bins_obs is the number of groups that hold a sample and
\* the feature is kept.)
C11_ReliabilityFilterPartition ==
    lat.pc = "done" =>
        LET threshold == IF lat.bins_obs_min_factor = -1 THEN 0
                         ELSE FloorDiv(lat.n_bins, lat.bins_obs_min_factor)
        IN /\ Oids(lat.test_df) \cup Oids(lat.unrel_df) = DOMAIN lat.cor_res
           /\ Oids(lat.test_df) \cap Oids(lat.unrel_df) = {}
           /\ Len(lat.test_df) + Len(lat.unrel_df) = Len(lat.cor_res)
           /\ \A i \in DOMAIN lat.cor_res :
                 /\ lat.cor_res[i].oid = i
                 /\ i \in Oids(lat.unrel_df) <=>
                       \/ lat.cor_res[i].prev < lat.prev_min
                       \/ lat.cor_res[i].n_bins_obs < threshold
                 /\ (/\ Cardinality(ObservedGroups(lat.otu_mat[i], group_vec)) = 1
                     /\ threshold >= 2) =>
                       /\ i \in Oids(lat.unrel_df)
                       /\ i \notin Oids(lat.test_df)

\* ------------------------- compute_latitudinal_abundance_cors_by_env
\* the map over the columns, from column i on: the rows so far are acc;
\* CorResNext continues after the call for column i has left the outcome r
RECURSIVE CorResFrom(_, _, _, _, _, _)
RECURSIVE CorResNext(_, _, _, _, _, _)
CorResFrom(otu_mat, lats_binned_indmap, srt, cs, i, acc) ==
    IF i > Len(otu_mat) THEN [err |-> "none", cor_res |-> acc]
    ELSE CorResNext(otu_mat, lats_binned_indmap, srt,
                    FastCorBinned(otu_mat[i], lats_binned_indmap, srt, cs, TRUE),
                    i, acc)
CorResNext(otu_mat, lats_binned_indmap, srt, r, i, acc) ==
    IF r.err # "none" THEN [err |-> r.err, cor_res |-> acc]
    ELSE CorResFrom(otu_mat, lats_binned_indmap, srt, r.caches, i + 1,
                    Append(acc, CorRow(i, r.ret, Len(srt))))

\* nothing is returned
LatFailed(e) ==
    [err |-> e, test_df |-> << >>, unrel_df |-> << >>, adjusted |-> << >>]

\* the tables returned for the filtered rows dfs, and the vectors
\* MultipleTesting.adjust returned for; nothing when the adjustment raised
LatReturn(dfs, do_FDR) ==
    IF dfs.err # "none" THEN LatFailed(dfs.err)
    ELSE [err |-> "none", test_df |-> dfs.test_df, unrel_df |-> dfs.unrel_df,
          adjusted |-> IF do_FDR
                       THEN <<[i \in DOMAIN dfs.test_df |-> dfs.test_df[i].pval]>>
                       ELSE << >>]

\* the statements after the map, res being its outcome.  No statement of
\* them tests for a matrix without columns: the map then yields an empty
\* vector, whose table has the columns of its element type and no row, and
\* without do_FDR two empty tables are returned.
LatAfterMap(res, n_bins_obs_min, prev_min, do_FDR) ==
    IF res.err # "none" THEN LatFailed(res.err)
    ELSE LatReturn(FilterRows(res.cor_res, prev_min, n_bins_obs_min, do_FDR), do_FDR)

\* the statements after the head of the function, head being its outcome
LatAfterHead(head, otu_mat, prev_min, do_FDR) ==
    IF head.err # "none" THEN LatFailed(head.err)
    ELSE LatAfterMap(CorResFrom(otu_mat, head.lats_binned_indmap, head.bins_srt,
                                head.caches, 1, << >>),
                     head.n_bins_obs_min, prev_min, do_FDR)

\* compute_latitudinal_abundance_cors as one call
ComputeLatCors(otu_mat, lats_binned, prev_min, bins_obs_min_factor, do_FDR) ==
    LatAfterHead(LatPrepare(lats_binned, bins_obs_min_factor), otu_mat,
                 prev_min, do_FDR)

\* compute_latitudinal_abundance_cors(otu_matn_env, lats_binned_env; prev_min,
\* bins_obs_min_factor, do_FDR=false)
EnvCors(otu_matn_env, lats_binned_env, prev_min, bins_obs_min_factor) ==
    ComputeLatCors(otu_matn_env, lats_binned_env, prev_min, bins_obs_min_factor, FALSE)

\* unique(env_vec): the distinct entries in the order of their first occurrence
RECURSIVE UniqueFrom(_, _, _)
UniqueFrom(s, i, acc) ==
    IF i > Len(s) THEN acc
    ELSE UniqueFrom(s, i + 1,
             IF \E j \in DOMAIN acc : acc[j] = s[i] THEN acc ELSE Append(acc, s[i]))
UniqueSeq(s) == UniqueFrom(s, 1, << >>)

\* x[mask]: the entries of x at the positions that satisfy the mask
RECURSIVE MaskedFrom(_, _, _, _)
MaskedFrom(x, env_vec, env, i) ==
    IF i > Len(x) THEN << >>
    ELSE (IF env_vec[i] = env THEN <<x[i]>> ELSE << >>)
         \o MaskedFrom(x, env_vec, env, i + 1)
Masked(x, env_vec, env) == MaskedFrom(x, env_vec, env, 1)

\* fit(Histogram, x; nbins=n_bins) of StatsBase for a vector of integers, the
\* bins closed on the left: the edges are (start + j*step)/divisor for j in
\* 0..len.  The bin width (hi - lo)/n_bins is rounded to 1, 2 or 5 times a
\* power of ten, the first edge is the multiple of the width at or below the
\* minimum, and edges are added until the last one exceeds the maximum.
RECURSIVE FloorLog10(_, _, _)
\* floor(log10(p/q)) for p >= q > 0, from the exponent e on
FloorLog10(p, q, e) ==
    IF Pow(10, e + 1) * q <= p THEN FloorLog10(p, q, e + 1) ELSE e
RECURSIVE CeilNegLog10(_, _, _)
\* -floor(log10(p/q)) for 0 < p < q, from the exponent k on
CeilNegLog10(p, q, k) ==
    IF p * Pow(10, k) >= q THEN k ELSE CeilNegLog10(p, q, k + 1)

\* the factor 1, 2, 5 or 10 for the ratio r = a/b of the width to its power of ten
NiceFactor(a, b) ==
    IF 10 * a <= 11 * b THEN 1
    ELSE IF 10 * a <= 22 * b THEN 2
    ELSE IF 10 * a <= 55 * b THEN 5
    ELSE 10

RECURSIVE FixStart(_, _, _, _)
\* while lo < start/divisor: start -= step
FixStart(lo, start, step, divisor) ==
    IF lo * divisor < start THEN FixStart(lo, start - step, step, divisor) ELSE start
RECURSIVE FixLen(_, _, _, _, _)
\* while (start + len*step)/divisor <= hi: len += 1
FixLen(hi, start, step, divisor, len) ==
    IF start + len * step <= hi * divisor
    THEN FixLen(hi, start, step, divisor, len + 1) ELSE len

\* the end points fixed up
HistFixed(lo, hi, start, step, divisor, len) ==
    [start |-> FixStart(lo, start, step, divisor), step |-> step,
     divisor |-> divisor,
     len |-> FixLen(hi, FixStart(lo, start, step, divisor), step, divisor, len)]

\* histrange(lo, hi, n) for integers lo <= hi and n >= 1
HistRange(lo, hi, n) ==
    IF hi = lo THEN HistFixed(lo, hi, hi, 1, 1, 1)
    ELSE IF hi - lo >= n
    THEN LET p10 == Pow(10, FloorLog10(hi - lo, n, 0))
             step == p10 * NiceFactor(hi - lo, n * p10)
             start == step * (lo \div step)
         IN HistFixed(lo, hi, start, step, 1, -((start - hi) \div step))
    ELSE LET p10 == Pow(10, CeilNegLog10(hi - lo, n, 1))
             divisor == p10 \div NiceFactor((hi - lo) * p10, n)
         IN HistFixed(lo, hi, lo * divisor, 1, divisor, (hi - lo) * divisor)

\* h.edges[1] for a vector x that is not empty
HistEdges(x, n_bins) ==
    LET lo == CHOOSE v \in Unique(x) : \A w \in Unique(x) : v <= w
        hi == CHOOSE v \in Unique(x) : \A w \in Unique(x) : w <= v
        h == HistRange(lo, hi, n_bins)
    IN [j \in 1..(h.len + 1) |->
          FDivInt(FromInt(h.start + (j - 1) * h.step), h.divisor)]

\* step(h.edges[1])
BinStep(x, n_bins) ==
    LET hist_edges == HistEdges(x, n_bins)
    IN FAdd(hist_edges[2], FMulInt(hist_edges[1], -1))

\* the edges handed over: hist_edges[findfirst(>(xi), hist_edges)-1] for
\* every element
BinsOf(x, hist_edges) ==
    [i \in DOMAIN x |->
        LET above == {j \in DOMAIN hist_edges : QLess(FromInt(x[i]), hist_edges[j])}
            first == CHOOSE j \in above : \A k \in above : j <= k
        IN hist_edges[first - 1]]

\* make_bins(x, n_bins=n_bins): the lower edge of the bin of every element
MakeBins(x, n_bins) ==
    IF x = << >> THEN << >> ELSE BinsOf(x, HistEdges(x, n_bins))

\* findall(pref_habs .== env): the OTUs whose preferred habitat is env
RECURSIVE OidMaskFrom(_, _, _)
OidMaskFrom(habs, env, i) ==
    IF i > Len(habs) THEN << >>
    ELSE (IF habs[i] = env THEN <<i>> ELSE << >>) \o OidMaskFrom(habs, env, i + 1)
OidMask(habs, env) == OidMaskFrom(habs, env, 1)

\* the rows of a table of otu_matn[:, oid_mask]: the key of column i is the
\* key of the OTU oid_mask[i]
KeyedBy(df, oid_mask) ==
    [i \in DOMAIN df |-> [df[i] EXCEPT !.oid = oid_mask[@]]]

\* curr_cor_df[!, :env] .= env
WithEnv(df, env) ==
    [i \in DOMAIN df |-> [row |-> df[i], env |-> env]]

\* vcat(dfs...)
RECURSIVE Vcat(_)
Vcat(dfs) == IF dfs = << >> THEN << >> ELSE Head(dfs) \o Vcat(Tail(dfs))

\* cor_df[!, :pval_adj] = MultipleTesting.adjust(cor_df.pval, BenjaminiHochberg())
FinalFDR(cor_df) ==
    LET pval == [i \in DOMAIN cor_df |-> cor_df[i].row.pval]
        pval_adj == Adjust(pval).pval_adj
    IN [i \in DOMAIN cor_df |->
          [cor_df[i] EXCEPT !.row.pval_adj = pval_adj[i]]]

\* --- SpecEnv: compute_latitudinal_abundance_cors_by_env on a sparse matrix
\* of MaxFeat OTUs.  The abundances of the OTUs of an environment are drawn
\* when the loop reaches the environment.
Envs == {"animal", "soil", "unknown"}
\* absolute latitudes: a width of the bins below 1, one above 1, and a first
\* edge above 0
Latitudes == {0, 1, NGroups + 1}

\* pref_habs is a global of the session, which no cell of the sources
\* defines: it is undefined, or has other keys than the OTUs of the matrix,
\* or names the preferred habitat of every OTU
PrefHabs ==
    {[state |-> "undefined", habs |-> << >>], [state |-> "other_keys", habs |-> << >>]}
    \cup {[state |-> "defined", habs |-> habs] :
             habs \in [1..MaxFeat -> Envs \ {"unknown"}]}

EnvLocals(env_vec, lats_vec_mirr, bins_obs_min_factor, pref_habs) ==
    [pc |-> "loop", env_vec |-> env_vec, lats_vec_mirr |-> lats_vec_mirr,
     pref_habs |-> pref_habs,
     n_bins |-> NGroups, prev_min |-> 1, bins_obs_min_factor |-> bins_obs_min_factor,
     envs |-> UniqueSeq(env_vec), k |-> 1, dfs |-> << >>, unrel_dfs |-> << >>,
     adjusted |-> << >>, cor_df |-> << >>, err |-> "none"]

\* the loop and the statements after it touch nothing but their own locals
EnvFrame ==
    /\ UNCHANGED <<caches, group_vec, bins_srt, otu_sparse, call, ret, dirty>>
    /\ UNCHANGED <<lat, workers, run, agg, rel>>

InitEnv ==
    /\ byenv \in {EnvLocals(env_vec, lats_vec_mirr, bins_obs_min_factor, pref_habs) :
                    env_vec \in [1..SeqSamp -> Envs],
                    lats_vec_mirr \in [1..SeqSamp -> Latitudes],
                    bins_obs_min_factor \in {-1, 0, 2},
                    pref_habs \in PrefHabs}
    /\ otu_sparse = TRUE
    /\ caches = NewCaches(0, 0)
    /\ group_vec = << >>
    /\ bins_srt = << >>
    /\ call = NoCall
    /\ ret = NoResult
    /\ dirty = FALSE
    /\ lat = Off
    /\ workers = Off /\ run = Off /\ agg = Off /\ rel = Off

\* env == "unknown" && continue
EnvSkip ==
    /\ byenv.pc = "loop"
    /\ byenv.k <= Len(byenv.envs)
    /\ byenv.envs[byenv.k] = "unknown"
    /\ byenv' = [byenv EXCEPT !.k = @ + 1]
    /\ EnvFrame

\* one round of the loop for an environment other than "unknown": the bins
\* of its samples, the assertion on the keys of pref_habs, the OTUs that
\* prefer the environment, the correlations of those OTUs
EnvProcess ==
    /\ byenv.pc = "loop"
    /\ byenv.k <= Len(byenv.envs)
    /\ byenv.envs[byenv.k] # "unknown"
    /\ LET env == byenv.envs[byenv.k]
           lats_vec_mirr_env == Masked(byenv.lats_vec_mirr, byenv.env_vec, env)
           lats_binned_env == MakeBins(lats_vec_mirr_env, byenv.n_bins)
           oid_mask == OidMask(byenv.pref_habs.habs, env)
       IN IF byenv.pref_habs.state = "undefined"
          THEN byenv' = [byenv EXCEPT !.pc = "error", !.err = "UndefVarError"]
          ELSE IF byenv.pref_habs.state = "other_keys"
          THEN byenv' = [byenv EXCEPT !.pc = "error", !.err = "AssertionError"]
          ELSE \E otu_matn_env \in [1..Len(oid_mask) ->
                                       Columns(Len(lats_vec_mirr_env), 1, TRUE)] :
               \E inferred \in BOOLEAN :
               \E r \in {EnvCors(otu_matn_env, lats_binned_env, byenv.prev_min,
                                 byenv.bins_obs_min_factor)} :
                  byenv' = IF r.err # "none"
                           THEN [byenv EXCEPT !.pc = "error", !.err = r.err]
                           ELSE IF NoColumnRaises(otu_matn_env, inferred)
                           THEN [byenv EXCEPT !.pc = "error", !.err = "ArgumentError"]
                           ELSE [byenv EXCEPT
                                   !.k = @ + 1,
                                   !.dfs = Append(@,
                                       WithEnv(KeyedBy(r.test_df, oid_mask), env)),
                                   !.unrel_dfs = Append(@,
                                       WithEnv(KeyedBy(r.unrel_df, oid_mask), env)),
                                   !.adjusted = @ \o r.adjusted]
    /\ EnvFrame

\* the statements after the loop: the tables are concatenated and the
\* p-values adjusted; without a processed environment vcat() is an empty
\* Vector and reading its pval column fails, and without a reliable OTU in
\* any environment the adjustment raises
EnvFinal ==
    /\ byenv.pc = "loop"
    /\ byenv.k > Len(byenv.envs)
    /\ \E cor_df \in {Vcat(byenv.dfs)} :
       \E pval \in {[i \in DOMAIN cor_df |-> cor_df[i].row.pval]} :
          byenv' = IF byenv.dfs = << >>
                   THEN [byenv EXCEPT !.pc = "error", !.err = "ErrorException"]
                   ELSE IF Adjust(pval).err # "none"
                   THEN [byenv EXCEPT !.pc = "error", !.err = Adjust(pval).err]
                   ELSE [byenv EXCEPT
                           !.pc = "done",
                           !.cor_df = FinalFDR(cor_df),
                           !.adjusted = Append(@, pval)]
    /\ EnvFrame

NextEnv == EnvSkip \/ EnvProcess \/ EnvFinal

SpecEnv == InitEnv /\ [][NextEnv]_vars

\* the environments the loop has passed and processed
RECURSIVE ProcessedFrom(_, _, _)
ProcessedFrom(envs, k, i) ==
    IF i >= k \/ i > Len(envs) THEN << >>
    ELSE (IF envs[i] = "unknown" THEN << >> ELSE <<envs[i]>>)
         \o ProcessedFrom(envs, k, i + 1)

\* C12: in compute_latitudinal_abundance_cors_by_env every environment
\* other than "unknown" is processed, once and in order, and no adjustment
\* is made while the loop over the environments runs (the per-environment
\* tables carry no adjusted p-value); when the function has returned the
\* adjustment has been made exactly once, over the concatenated p-values of
\* all those environments.  (Violated: the body of the loop reads the
\* variable pref_habs, which is neither an argument nor a local and which
\* nothing defines, and raises at the first environment other than
\* "unknown", before any adjustment.)
C12_FDRBarrier ==
    byenv.pc # "off" =>
        LET processed == ProcessedFrom(byenv.envs, byenv.k, 1)
            cor_df == Vcat(byenv.dfs)
            pval == [i \in DOMAIN cor_df |-> cor_df[i].row.pval]
        IN /\ byenv.err # "UndefVarError"
           /\ Len(byenv.dfs) = Len(processed)
           /\ \A j \in DOMAIN byenv.dfs : \A i \in DOMAIN byenv.dfs[j] :
                 /\ byenv.dfs[j][i].env = processed[j]
                 /\ byenv.dfs[j][i].row.pval_adj = NoCor
           /\ byenv.pc # "done" => byenv.adjusted = << >>
           /\ byenv.pc = "done" =>
                 /\ byenv.k > Len(byenv.envs)
                 /\ Unique(processed) = Unique(byenv.env_vec) \ {"unknown"}
                 /\ \A i, j \in DOMAIN processed : i # j => processed[i] # processed[j]
                 /\ byenv.adjusted = <<pval>>
                 /\ pval # << >>
                 /\ \A i \in DOMAIN cor_df :
                       byenv.cor_df[i].row.pval_adj = Adjust(pval).pval_adj[i]

\* ------------------------------ aggregation calls running side by side
\* Two calls, for the columns of two features, advance one statement at a
\* time: each of the three fill! calls, the addition to sum_cache and the
\* increment of prev_cache of a round of the loop of _populate_caches!, the
\* division of the sums.  mean_cache, sum_cache and prev_cache belong to
\* an accumulator; group_count_cache is the one array of the variable caches.
\* workers.acc holds one accumulator that both calls write (SpecRace) or one
\* accumulator for each call (SpecOwned).

\* the accumulator the call of worker w was handed
OwnerShared(w) == 1
Owner(w) == IF Len(workers.acc) = 1 THEN 1 ELSE w

Accumulator(cs) ==
    [mean_cache |-> cs.mean_cache, sum_cache |-> cs.sum_cache,
     prev_cache |-> cs.prev_cache]

\* the caches NamedTuple a call sees: its accumulator and the group counts
CachesOf(acc) ==
    [caches EXCEPT !.mean_cache = acc.mean_cache, !.sum_cache = acc.sum_cache,
                   !.prev_cache = acc.prev_cache]

\* rounds of the loop of _populate_caches! for a vector
Rounds(val_vec) ==
    IF IsSparse(val_vec) THEN Len(rowvals(val_vec)) ELSE Length(val_vec)

\* the sample and the value of round k of the loop of _populate_caches!
RoundSample(val_vec, k) == IF IsSparse(val_vec) THEN rowvals(val_vec)[k] ELSE k
RoundValue(val_vec, k) ==
    IF IsSparse(val_vec) THEN nonzeros(val_vec)[k] ELSE Elem(val_vec, k)

\* an addition that drops the value
AddToSumDropped(val_vec, gv, sum_cache, k) == sum_cache

\* sum_cache[group] += val
AddToSum(val_vec, gv, sum_cache, k) ==
    [sum_cache EXCEPT ![gv[RoundSample(val_vec, k)]] =
        FAdd(@, FromInt(RoundValue(val_vec, k)))]

\* prev_cache[group] += 1
CountInPrev(val_vec, gv, prev_cache, k) ==
    [prev_cache EXCEPT ![gv[RoundSample(val_vec, k)]] = @ + 1]

Worker(val_vec, pc) ==
    [val_vec |-> val_vec, pc |-> pc, k |-> 1, ret |-> NoResult]

\* a statement of worker w runs while the call of the other worker is under way
Overlaps(w, first) ==
    \E v \in DOMAIN workers.w : v # w /\ workers.w[v].pc \notin {first, "done"}

WorkersFrame ==
    /\ UNCHANGED <<caches, group_vec, bins_srt, otu_sparse, call, ret, dirty>>
    /\ UNCHANGED <<lat, byenv, run, agg, rel>>

InitWorkers(n_acc, first, op) ==
    /\ group_vec \in GroupSeqs(SeqSamp)
    /\ bins_srt = BinsSrt
    /\ otu_sparse \in BOOLEAN
    /\ caches = PopulateGroupCounts(NewCaches(SeqSamp, NGroups), group_vec)
    /\ call = NoCall
    /\ ret = NoResult
    /\ dirty = FALSE
    /\ workers \in {[pc |-> "on", op |-> op, first |-> first, overlap |-> FALSE,
                     acc |-> [o \in 1..n_acc |-> Accumulator(caches)],
                     w |-> <<Worker(v1, first), Worker(v2, first)>>] :
                    v1 \in LatColumns, v2 \in LatColumns}
    /\ lat = Off /\ byenv = Off /\ run = Off /\ agg = Off /\ rel = Off

\* if all(iszero, val_vec): the tuple (NaN, 0, 0) is returned at once
WCheck(w) ==
    /\ workers.pc = "on" /\ workers.w[w].pc = "check"
    /\ workers' = IF AllZero(workers.w[w].val_vec)
                  THEN [workers EXCEPT !.w[w].pc = "done",
                                       !.w[w].ret = CorResult(NaN, 0, 0)]
                  ELSE [workers EXCEPT !.w[w].pc = "fill_mean"]
    /\ WorkersFrame

\* fill!(mean_cache, 0.0)
WFillMean(w) ==
    /\ workers.pc = "on" /\ workers.w[w].pc = "fill_mean"
    /\ workers' = [workers EXCEPT
                     !.acc[Owner(w)].mean_cache = Fill(@, Zero),
                     !.w[w].pc = "fill_sum",
                     !.overlap = @ \/ Overlaps(w, workers.first)]
    /\ WorkersFrame

\* fill!(sum_cache, 0.0)
WFillSum(w) ==
    /\ workers.pc = "on" /\ workers.w[w].pc = "fill_sum"
    /\ workers' = [workers EXCEPT
                     !.acc[Owner(w)].sum_cache = Fill(@, Zero),
                     !.w[w].pc = "fill_prev",
                     !.overlap = @ \/ Overlaps(w, workers.first)]
    /\ WorkersFrame

\* fill!(prev_cache, 0), and the head of the loop of _populate_caches!
WFillPrev(w) ==
    /\ workers.pc = "on" /\ workers.w[w].pc = "fill_prev"
    /\ workers' = [workers EXCEPT
                     !.acc[Owner(w)].prev_cache = Fill(@, 0),
                     !.w[w].pc = IF Rounds(workers.w[w].val_vec) = 0
                                 THEN "mean" ELSE "add_sum",
                     !.overlap = @ \/ Overlaps(w, workers.first)]
    /\ WorkersFrame

\* sum_cache[group] += val in round k of the loop of _populate_caches!
WAddSum(w) ==
    /\ workers.pc = "on" /\ workers.w[w].pc = "add_sum"
    /\ workers' = [workers EXCEPT
                     !.acc[Owner(w)].sum_cache =
                        AddToSum(workers.w[w].val_vec, group_vec, @, workers.w[w].k),
                     !.w[w].pc = "add_prev",
                     !.overlap = @ \/ Overlaps(w, workers.first)]
    /\ WorkersFrame

\* prev_cache[group] += 1 in round k, and the head of the loop
WAddPrev(w) ==
    /\ workers.pc = "on" /\ workers.w[w].pc = "add_prev"
    /\ workers' = [workers EXCEPT
                     !.acc[Owner(w)].prev_cache =
                        CountInPrev(workers.w[w].val_vec, group_vec, @, workers.w[w].k),
                     !.w[w].k = @ + 1,
                     !.w[w].pc = IF workers.w[w].k = Rounds(workers.w[w].val_vec)
                                 THEN "mean" ELSE "add_sum",
                     !.overlap = @ \/ Overlaps(w, workers.first)]
    /\ WorkersFrame

\* mean_cache .= sum_cache ./ group_count_cache; groupby_mean! returns
WMean(w) ==
    /\ workers.pc = "on" /\ workers.w[w].pc = "mean"
    /\ workers' = [workers EXCEPT
                     !.acc[Owner(w)].mean_cache =
                        MeanCache(CachesOf(workers.acc[Owner(w)])),
                     !.w[w].pc = IF workers.op = "groupby_mean" THEN "done"
                                 ELSE "finish",
                     !.overlap = @ \/ Overlaps(w, workers.first)]
    /\ WorkersFrame

\* what follows groupby_mean! in _fast_cor_binned: the counts are read, the
\* means are logged and correlated
WFinish(w) ==
    /\ workers.pc = "on" /\ workers.w[w].pc = "finish"
    /\ \E r \in {CorOfMeans([caches |-> CachesOf(workers.acc[Owner(w)]),
                              err |-> "none"], bins_srt, TRUE)} :
          workers' = [workers EXCEPT
                        !.acc[Owner(w)] = Accumulator(r.caches),
                        !.w[w].ret = r.ret,
                        !.w[w].pc = "done",
                        !.overlap = @ \/ Overlaps(w, workers.first)]
    /\ WorkersFrame

\* --- SpecRace: two groupby_mean! calls on the same caches object
InitRace == InitWorkers(1, "fill_mean", "groupby_mean")
NextRace ==
    \E w \in 1..2 : \/ WFillMean(w) \/ WFillSum(w) \/ WFillPrev(w)
                     \/ WAddSum(w) \/ WAddPrev(w) \/ WMean(w)
SpecRace == InitRace /\ [][NextRace]_vars

\* --- SpecOwned: two _fast_cor_binned calls, each on an accumulator of its own
InitOwned == InitWorkers(2, "check", "fast_cor_binned")
NextOwned ==
    \E w \in 1..2 : \/ WCheck(w)
                     \/ WFillMean(w) \/ WFillSum(w) \/ WFillPrev(w)
                     \/ WAddSum(w) \/ WAddPrev(w) \/ WMean(w) \/ WFinish(w)
SpecOwned == InitOwned /\ [][NextOwned]_vars

\* the accumulator groupby_mean! leaves when it runs alone on zeroed arrays
AloneGroupbyMean(val_vec) ==
    Accumulator(GroupbyMean(val_vec, group_vec, ZeroedCaches(caches), FALSE).caches)

\* what _fast_cor_binned leaves and returns when it runs alone
AloneFastCorBinned(val_vec) ==
    FastCorBinned(val_vec, group_vec, bins_srt, ZeroedCaches(caches), TRUE)

BothDone == workers.pc = "on" /\ \A w \in DOMAIN workers.w : workers.w[w].pc = "done"

\* the shared accumulator holds the sequential result of neither call
Corrupted ==
    /\ workers.acc[1] # AloneGroupbyMean(workers.w[1].val_vec)
    /\ workers.acc[1] # AloneGroupbyMean(workers.w[2].val_vec)

\* C13: two groupby_mean! calls for different value vectors on the same
\* caches object can leave sum_cache, prev_cache and mean_cache equal to the
\* sequential result of neither call (the witness is such a state), and they
\* do so only when their steps interleaved: calls that ran one after the
\* other leave the result of one of them.
C13_RaceOnSharedAccumulator ==
    (BothDone /\ Corrupted) => workers.overlap

\* both calls have returned, their vectors differ, and the accumulator holds
\* the sequential result of neither
C13_Witness ==
    /\ BothDone /\ Len(workers.acc) = 1
    /\ workers.w[1].val_vec # workers.w[2].val_vec
    /\ Corrupted

\* C14: with an accumulator for each worker and only group_count_cache
\* shared, under every interleaving the tuple a call returns (cor,
\* n_bins_obs, prev) and the sum_cache, prev_cache and mean_cache it leaves
\* are those of the call running alone, and group_count_cache is as populated.
C14_OwnedAccumulatorsAreSafe ==
    workers.pc = "on" =>
        /\ caches.group_count_cache =
              CountGroupsFrom(group_vec, ZerosI(Len(caches.group_count_cache)), 1)
        /\ \A w \in DOMAIN workers.w :
              workers.w[w].pc = "done" =>
                 LET alone == AloneFastCorBinned(workers.w[w].val_vec)
                 IN /\ workers.w[w].ret = alone.ret
                    /\ workers.acc[w] = Accumulator(alone.caches)

\* two calls on different non-zero vectors have returned after their steps
\* interleaved
C14_Witness ==
    /\ BothDone /\ Len(workers.acc) = 2 /\ workers.overlap
    /\ workers.w[1].val_vec # workers.w[2].val_vec
    /\ \A w \in DOMAIN workers.w : ~AllZero(workers.w[w].val_vec)

\* ------------------------------------------------ run_semantic_clustering
MaxPrompts == 4    \* prompts (num_samples) of a run
MaxBatch == 2      \* largest batch_size

\* the procedures of the first notebook are not running
JuliaOff ==
    /\ caches = NewCaches(0, 0)
    /\ group_vec = << >>
    /\ bins_srt = << >>
    /\ otu_sparse = FALSE
    /\ call = NoCall
    /\ ret = NoResult
    /\ dirty = FALSE
    /\ lat = Off /\ byenv = Off /\ workers = Off

\* The output file: absent, a JSON array of outputs, a JSON value that is no
\* array (an object, a string, a number, null), text that is no JSON, or
\* bytes that are no UTF-8 text.
\* json.dump writes an array, json.load reads one back.
NoFile == [kind |-> "absent", items |-> << >>]
JsonDump(all_outputs) == [kind |-> "json", items |-> all_outputs]
OtherJson == [kind |-> "other_json", items |-> << >>]
NotJson == [kind |-> "not_json", items |-> << >>]
NotUtf8 == [kind |-> "not_utf8", items |-> << >>]

\* pipe(batch): one output for every prompt of the batch, in the order of the batch
Generated(prompt) == [generated_text |-> prompt]
Pipe(batch) == [j \in DOMAIN batch |-> Generated(batch[j])]

\* formatted_prompts[i:i+batch_size], i counting from 0
Slice(s, i, batch_size) ==
    SubSeq(s, i + 1, IF i + batch_size < Len(s) THEN i + batch_size ELSE Len(s))

\* a save that writes the new outputs over the file
SaveOutputsOverwrite(new_outputs, file) ==
    [err |-> "none", file |-> JsonDump(new_outputs)]

\* _save_outputs(new_outputs, output_path): the file it leaves.  json.load
\* raises when it reads bytes that are no UTF-8 text and when the text is no
\* JSON; the concatenation with the list of new outputs raises on a JSON
\* value that is no array.  The file is opened for writing after all three.
SaveOutputs(new_outputs, file) ==
    IF file.kind = "not_utf8" THEN [err |-> "UnicodeDecodeError", file |-> file]
    ELSE IF file.kind = "not_json" THEN [err |-> "JSONDecodeError", file |-> file]
    ELSE IF file.kind = "other_json" THEN [err |-> "TypeError", file |-> file]
    ELSE [err |-> "none",
          file |-> JsonDump((IF file.kind = "absent" THEN << >> ELSE file.items)
                            \o new_outputs)]

RunLocals(n, batch_size, save_interval, file) ==
    [pc |-> "loop", formatted_prompts |-> [j \in 1..n |-> j],
     batch_size |-> batch_size, save_interval |-> save_interval,
     i |-> 0, outputs |-> << >>, file |-> file, before |-> file, err |-> "none"]

RunFrame ==
    /\ UNCHANGED <<caches, group_vec, bins_srt, otu_sparse, call, ret, dirty>>
    /\ UNCHANGED <<lat, byenv, workers, agg, rel>>

InitRun ==
    /\ run \in {RunLocals(n, batch_size, save_interval, file) :
                  n \in 0..MaxPrompts, batch_size \in 1..MaxBatch,
                  save_interval \in 0..MaxPrompts,
                  file \in {NoFile, JsonDump(<< >>), JsonDump(<<Generated(0)>>),
                            OtherJson, NotJson, NotUtf8}}
    /\ JuliaOff
    /\ agg = Off /\ rel = Off

\* one round of the loop over the batches, the periodic save included
RunBatch ==
    /\ run.pc = "loop"
    /\ run.i < Len(run.formatted_prompts)
    /\ LET batch == Slice(run.formatted_prompts, run.i, run.batch_size)
           outputs == run.outputs \o Pipe(batch)
       IN IF Len(outputs) >= run.save_interval
          THEN \E r \in {SaveOutputs(outputs, run.file)} :
                  run' = IF r.err # "none"
                         THEN [run EXCEPT !.pc = "error", !.err = r.err,
                                          !.outputs = outputs]
                         ELSE [run EXCEPT !.i = @ + run.batch_size,
                                          !.file = r.file, !.outputs = << >>]
          ELSE run' = [run EXCEPT !.i = @ + run.batch_size, !.outputs = outputs]
    /\ RunFrame

\* the statements after the loop: the remaining outputs are saved
RunFinish ==
    /\ run.pc = "loop"
    /\ run.i >= Len(run.formatted_prompts)
    /\ IF run.outputs # << >>
       THEN \E r \in {SaveOutputs(run.outputs, run.file)} :
               run' = IF r.err # "none"
                      THEN [run EXCEPT !.pc = "error", !.err = r.err]
                      ELSE [run EXCEPT !.pc = "done", !.file = r.file]
       ELSE run' = [run EXCEPT !.pc = "done"]
    /\ RunFrame

NextRun == RunBatch \/ RunFinish

SpecRun == InitRun /\ [][NextRun]_vars

\* the outputs of the prompts 1..n, in prompt order
OutputsUpTo(n) == [j \in 1..n |-> Generated(j)]
Least(a, b) == IF a < b THEN a ELSE b

\* C16: in every step of run_semantic_clustering: a batch that brings the
\* buffer to at least save_interval outputs appends the whole buffer to the
\* file and empties it, any other batch leaves the file alone; the last step
\* writes a non-empty remainder; the file followed by the buffer is always the
\* content before the run followed by the outputs of the prompts processed so
\* far, each once and in prompt order; and when the run has completed the
\* file holds the content before the run followed by the output of every prompt.
C16_PeriodicSavingLosesNothing ==
    [][run.pc = "loop" =>
        LET n == Len(run.formatted_prompts)
            seen == Least(run'.i, n)
            buffer == run.outputs
                      \o [j \in 1..(seen - run.i) |-> Generated(run.i + j)]
        IN /\ (run'.pc = "loop" /\ Len(buffer) >= run.save_interval) =>
                 /\ run'.file.items = run.file.items \o buffer
                 /\ run'.outputs = << >>
           /\ (run'.pc = "loop" /\ Len(buffer) < run.save_interval) =>
                 /\ run'.file = run.file
                 /\ run'.outputs = buffer
           /\ run'.pc = "loop" =>
                 run'.file.items \o run'.outputs = run.before.items \o OutputsUpTo(seen)
           /\ run'.pc = "done" =>
                 /\ seen = n
                 /\ run'.file.items = run.before.items \o OutputsUpTo(n)
                 /\ (run.outputs # << >> \/ run.file.kind = "json") =>
                       run'.file.kind = "json"
    ]_vars

\* a run over an existing file completed after a periodic save and a last
\* batch that only filled the buffer, whose remainder the last step saved
C16_Witness ==
    /\ run.pc = "done" /\ run.before.items # << >>
    /\ run.save_interval = 2 /\ run.batch_size = 2
    /\ Len(run.formatted_prompts) = 3
    /\ Len(run.outputs) = 1
    /\ run.file.items = run.before.items \o OutputsUpTo(3)

\* --------------------------------------------- compute_term_relationships
MaxContexts == 2   \* contexts of a call

\* the terms that can occur in the contexts
Terms == {"a", "b", "c"}

\* list(all_terms): the terms of the set in the order its iteration yields.
\* The order depends on the hashes of the strings, which change from one
\* interpreter to the next: every order is possible
Orders(T) ==
    {all_terms \in [1..Cardinality(T) -> T] :
        \A p, q \in 1..Cardinality(T) : p # q => all_terms[p] # all_terms[q]}

\* term_to_idx = {term: idx for idx, term in enumerate(all_terms)}
TermToIdx(all_terms) ==
    [term \in Unique(all_terms) |->
        (CHOOSE p \in DOMAIN all_terms : all_terms[p] = term) - 1]

\* np.zeros((n_terms, n_terms))
ZeroMatrix(n_terms) == [i \in 0..(n_terms - 1) |-> [j \in 0..(n_terms - 1) |-> 0]]

\* a context: a list of at most two clusters, a cluster a collection of terms
ContextsOver(T) ==
    {<< >>} \cup {<<c1>> : c1 \in SUBSET T}
            \cup {<<c1, c2>> : c1 \in SUBSET T, c2 \in SUBSET T}

\* first pass over a context: the terms of the context and, for every term,
\* the index of the last cluster that lists it
TermsInContext(context) == UNION {context[c] : c \in DOMAIN context}
ClusterMembership(context) ==
    [term \in TermsInContext(context) |->
        (CHOOSE c \in DOMAIN context :
            /\ term \in context[c]
            /\ \A d \in DOMAIN context : term \in context[d] => d <= c) - 1]

\* second pass over a context: the counts of every ordered pair of distinct
\* terms of the context are updated
CountContext(counts, context, all_terms) ==
    LET terms_in_context == TermsInContext(context)
        cluster_membership == ClusterMembership(context)
        n == Len(all_terms)
        pair(i, j) == /\ all_terms[i + 1] \in terms_in_context
                      /\ all_terms[j + 1] \in terms_in_context
                      /\ all_terms[i + 1] # all_terms[j + 1]
        same(i, j) == cluster_membership[all_terms[i + 1]]
                      = cluster_membership[all_terms[j + 1]]
        bump(M, hit(_, _)) ==
            [i \in 0..(n - 1) |-> [j \in 0..(n - 1) |->
                IF hit(i, j) THEN M[i][j] + 1 ELSE M[i][j]]]
        together(i, j) == pair(i, j) /\ same(i, j)
        apart(i, j) == pair(i, j) /\ ~same(i, j)
    IN [same_context_count |-> bump(counts.same_context_count, pair),
        same_cluster_count |-> bump(counts.same_cluster_count, together),
        different_cluster_count |-> bump(counts.different_cluster_count, apart)]

\* the scores without the division by the number of shared contexts
RelationshipMatrixUnnormalised(counts, n_terms) ==
    [i \in 0..(n_terms - 1) |-> [j \in 0..(n_terms - 1) |->
        IF i # j /\ counts.same_context_count[i][j] > 0
        THEN FromInt(counts.same_cluster_count[i][j]
                     - counts.different_cluster_count[i][j])
        ELSE Zero]]

\* the relationship scores
RelationshipMatrix(counts, n_terms) ==
    [i \in 0..(n_terms - 1) |-> [j \in 0..(n_terms - 1) |->
        IF i # j /\ counts.same_context_count[i][j] > 0
        THEN FDivInt(FromInt(counts.same_cluster_count[i][j]
                             - counts.different_cluster_count[i][j]),
                     counts.same_context_count[i][j])
        ELSE Zero]]

\* --- SpecRel: compute_term_relationships(contexts).  all_terms lists the
\* terms of the contexts, a subset of Terms.  The contexts are drawn as the
\* counting loop reaches them; rel.seen holds the terms they have listed,
\* and the scores are computed once every term of all_terms has been listed
\* (all_terms is the union of the terms of the contexts).
RelLocals(all_terms) ==
    [pc |-> "count", all_terms |-> all_terms, term_to_idx |-> TermToIdx(all_terms),
     n_terms |-> Len(all_terms), seen |-> {}, processed |-> 0,
     counts |-> [same_cluster_count |-> ZeroMatrix(Len(all_terms)),
                 same_context_count |-> ZeroMatrix(Len(all_terms)),
                 different_cluster_count |-> ZeroMatrix(Len(all_terms))],
     relationship_matrix |-> ZeroMatrix(0)]

RelFrame ==
    /\ UNCHANGED <<caches, group_vec, bins_srt, otu_sparse, call, ret, dirty>>
    /\ UNCHANGED <<lat, byenv, workers, run, agg>>

InitRel ==
    /\ rel \in {RelLocals(all_terms) :
                  all_terms \in UNION {Orders(T) : T \in SUBSET Terms}}
    /\ JuliaOff
    /\ run = Off /\ agg = Off

\* one round of the loop over the contexts: both passes
RelContext ==
    /\ rel.pc = "count"
    /\ rel.processed < MaxContexts
    /\ \E context \in ContextsOver(Unique(rel.all_terms)) :
          rel' = [rel EXCEPT
                    !.counts = CountContext(@, context, rel.all_terms),
                    !.seen = @ \cup TermsInContext(context),
                    !.processed = @ + 1]
    /\ RelFrame

\* the loop that computes the relationship scores, and the return
RelScores ==
    /\ rel.pc = "count"
    /\ rel.seen = Unique(rel.all_terms)
    /\ rel' = [rel EXCEPT !.pc = "done",
                          !.relationship_matrix =
                              RelationshipMatrix(rel.counts, rel.n_terms)]
    /\ RelFrame

NextRel == RelContext \/ RelScores

SpecRel == InitRel /\ [][NextRel]_vars

Symmetric(M) == \A i \in DOMAIN M : \A j \in DOMAIN M : M[i][j] = M[j][i]
ZeroDiagonal(M, zero) == \A i \in DOMAIN M : M[i][i] = zero

\* C20: after every processed context same_context_count[i][j] =
\* same_cluster_count[i][j] + different_cluster_count[i][j] for all distinct
\* i, j and the three count matrices are symmetric with zero diagonal; the
\* relationship matrix returned is symmetric with zero diagonal, every score
\* is (same - different) / shared of its pair, lies in [-1, 1], and is 0 for
\* a pair that never shared a context.
C20_CountInvariants ==
    rel.pc # "off" =>
        LET same == rel.counts.same_cluster_count
            both == rel.counts.same_context_count
            diff == rel.counts.different_cluster_count
            R == rel.relationship_matrix
            idx == 0..(rel.n_terms - 1)
        IN /\ \A i, j \in idx : i # j => both[i][j] = same[i][j] + diff[i][j]
           /\ Symmetric(same) /\ Symmetric(both) /\ Symmetric(diff)
           /\ ZeroDiagonal(same, 0) /\ ZeroDiagonal(both, 0) /\ ZeroDiagonal(diff, 0)
           /\ rel.pc = "done" =>
                 /\ DOMAIN R = idx
                 /\ Symmetric(R) /\ ZeroDiagonal(R, Zero)
                 /\ \A i, j \in idx :
                       /\ IsFin(R[i][j]) /\ R[i][j].t = NoTerms
                       /\ R[i][j].n * both[i][j] = (same[i][j] - diff[i][j]) * R[i][j].d
                       /\ R[i][j].d > 0
                       /\ -R[i][j].d <= R[i][j].n /\ R[i][j].n <= R[i][j].d
                       /\ both[i][j] = 0 => R[i][j] = Zero

\* scores were returned for a pair clustered together once and apart once
\* (score 0 although it shared contexts), next to a pair with a non-zero
\* score, the terms being listed out of their alphabetical order
C20_Witness ==
    /\ rel.pc = "done"
    /\ \E i, j \in DOMAIN rel.relationship_matrix :
          /\ i # j
          /\ rel.counts.same_cluster_count[i][j] = 1
          /\ rel.counts.different_cluster_count[i][j] = 1
    /\ \E i, j \in DOMAIN rel.relationship_matrix :
          rel.relationship_matrix[i][j] # Zero
    /\ rel.all_terms = <<"b", "a", "c">>

\* -------- sum_abunds_per_otu_and_cclust and convert_to_mean_abunds
\* otu_matn_T is an AxisArray over a sparse matrix: a row for every OTU, a
\* column for every sample.  A column holds its stored entries, a stored
\* entry may be zero.  cclust_map maps a community cluster to the sample ids
\* listed for it; a Dict is iterated in an order the language leaves open.
OtuIds == <<"otu_a", "otu_b">>
CclustIds == {"cc_x", "cc_y"}
\* the sample id of column i, and a sample id that is no column of the table
SampleId(i) == 100 + i
OtherSample == 100

\* the stored entries at the rows >= i: -1 marks a row without a stored entry
RECURSIVE StoredInd(_, _)
StoredInd(f, i) ==
    IF i > Len(f) THEN << >>
    ELSE IF f[i] # -1 THEN <<i>> \o StoredInd(f, i + 1) ELSE StoredInd(f, i + 1)
StoredColumn(f) ==
    LET ind == StoredInd(f, 1)
    IN SparseVec(Len(f), ind, [k \in 1..Len(ind) |-> f[ind[k]]])
AbundColumns == {StoredColumn(f) : f \in [1..Len(OtuIds) -> {-1, 0, 1}]}

\* cc_idx after the loop over cclust_map in the order cc_order: the index of
\* the last cluster that lists the sample of column s, 0 for a sample no
\* cluster lists
CcIdx(sid_header, cclust_map, cc_order) ==
    [s \in DOMAIN sid_header |->
        LET listing == {cc_i \in DOMAIN cc_order :
                           sid_header[s] \in cclust_map[cc_order[cc_i]]}
        IN IF listing = {} THEN 0
           ELSE CHOOSE cc_i \in listing : \A d \in listing : d <= cc_i]

\* Dict(rvs[j] => nzv[j] for j in s_itr)
ColumnDict(col) ==
    [oid \in Unique(rowvals(col)) |->
        nonzeros(col)[CHOOSE j \in DOMAIN rowvals(col) : rowvals(col)[j] = oid]]

\* the loop over the stored entries of a column that overwrites an entry
\* already in the dictionary
RECURSIVE AddEntriesOverwriting(_, _, _)
AddEntriesOverwriting(sub_acc_dict, col, j) ==
    IF j > Len(rowvals(col)) THEN sub_acc_dict
    ELSE LET oid == rowvals(col)[j]
             abund == nonzeros(col)[j]
         IN AddEntriesOverwriting(
                [o \in DOMAIN sub_acc_dict \cup {oid} |->
                    IF o = oid THEN abund ELSE sub_acc_dict[o]],
                col, j + 1)

\* for j in s_itr: sub_acc_dict[oid] += abund, or = abund for a new key
RECURSIVE AddEntries(_, _, _)
AddEntries(sub_acc_dict, col, j) ==
    IF j > Len(rowvals(col)) THEN sub_acc_dict
    ELSE LET oid == rowvals(col)[j]
             abund == nonzeros(col)[j]
         IN AddEntries(
                [o \in DOMAIN sub_acc_dict \cup {oid} |->
                    IF o # oid THEN sub_acc_dict[o]
                    ELSE IF oid \in DOMAIN sub_acc_dict
                         THEN sub_acc_dict[oid] + abund ELSE abund],
                col, j + 1)

\* the loop over the samples, from sample s_i on
RECURSIVE AccumFrom(_, _, _, _)
AccumFrom(A, cc_idx, s_i, accum_dict) ==
    IF s_i > Len(A) THEN accum_dict
    ELSE LET cc_i == cc_idx[s_i]
         IN AccumFrom(A, cc_idx, s_i + 1,
                [c \in DOMAIN accum_dict \cup {cc_i} |->
                    IF c # cc_i THEN accum_dict[c]
                    ELSE IF cc_i \in DOMAIN accum_dict
                         THEN AddEntries(accum_dict[cc_i], A[s_i], 1)
                         ELSE ColumnDict(A[s_i])])

EmptyDict == [x \in {} |-> 0]

\* trans_accum_dict: indices replaced by the ids of the clusters and the OTUs
Translate(accum_dict, cc_order, oid_map) ==
    [cc \in {cc_order[cc_i] : cc_i \in DOMAIN accum_dict} |->
        LET sub_d == accum_dict[CHOOSE cc_i \in DOMAIN accum_dict : cc_order[cc_i] = cc]
        IN [oid \in {oid_map[oid_i] : oid_i \in DOMAIN sub_d} |->
               sub_d[CHOOSE oid_i \in DOMAIN sub_d : oid_map[oid_i] = oid]]]

\* the accumulation and translation, once the assertion on cc_idx is made
SumAccumulated(A, cc_idx, oid_map, cc_order) ==
    IF \E s \in DOMAIN cc_idx : cc_idx[s] = 0
    THEN [err |-> "AssertionError", dict |-> EmptyDict]
    ELSE [err |-> "none",
          dict |-> Translate(AccumFrom(A, cc_idx, 1, EmptyDict), cc_order, oid_map)]

\* sum_abunds_per_otu_and_cclust(otu_matn_T, cclust_map), the Dict being
\* iterated in the order cc_order
SumAbundsPerOtuAndCclust(A, oid_map, sid_header, cclust_map, cc_order) ==
    SumAccumulated(A, CcIdx(sid_header, cclust_map, cc_order), oid_map, cc_order)

\* convert_to_mean_abunds(accum_dict, cclust_map) with prev_accum_dict =
\* nothing.  nz is no argument and no local of the function: it is read as a
\* global, which no cell of the notebooks defines ("undefined"), or which
\* the session may hold as true or false.
ConvertToMeanAbunds(accum_dict, cclust_map, nz) ==
    IF nz = "undefined" THEN [err |-> "UndefVarError", dict |-> EmptyDict]
    ELSE IF nz = "true" THEN [err |-> "AssertionError", dict |-> EmptyDict]
    ELSE [err |-> "none",
          dict |-> [cc \in DOMAIN accum_dict |->
                      [oid \in DOMAIN accum_dict[cc] |->
                          FDivInt(FromInt(accum_dict[cc][oid]),
                                  Cardinality(cclust_map[cc]))]]]

\* --- SpecAgg: sum_abunds_per_otu_and_cclust on a table of SeqSamp samples,
\* then convert_to_mean_abunds on the dictionary it returned
SampleIds == {SampleId(i) : i \in 1..SeqSamp}
NzGlobals == {"undefined", "true", "false"}

AggLocals(A, cclust_map, cc_order) ==
    [pc |-> "start", A |-> A, oid_map |-> OtuIds,
     sid_header |-> [i \in 1..SeqSamp |-> SampleId(i)],
     cclust_map |-> cclust_map, cc_order |-> cc_order,
     accum_dict |-> EmptyDict, mean_accum_dict |-> EmptyDict, err |-> "none"]

AggFrame ==
    /\ UNCHANGED <<caches, group_vec, bins_srt, otu_sparse, call, ret, dirty>>
    /\ UNCHANGED <<lat, byenv, workers, run, rel>>

InitAgg ==
    /\ agg \in {AggLocals(A, [cc \in CclustIds |->
                                IF cc = "cc_x" THEN x \cup extra ELSE y], cc_order) :
                  A \in [1..SeqSamp -> AbundColumns],
                  x \in SUBSET SampleIds, y \in SUBSET SampleIds,
                  extra \in {{}, {OtherSample}},
                  cc_order \in {<<"cc_x", "cc_y">>, <<"cc_y", "cc_x">>}}
    /\ JuliaOff
    /\ run = Off /\ rel = Off

AggSum ==
    /\ agg.pc = "start"
    /\ \E r \in {SumAbundsPerOtuAndCclust(agg.A, agg.oid_map, agg.sid_header,
                                          agg.cclust_map, agg.cc_order)} :
          agg' = [agg EXCEPT !.pc = IF r.err = "none" THEN "summed" ELSE "error",
                             !.err = r.err, !.accum_dict = r.dict]
    /\ AggFrame

AggMean ==
    /\ agg.pc = "summed"
    /\ \E nz \in NzGlobals :
       \E r \in {ConvertToMeanAbunds(agg.accum_dict, agg.cclust_map, nz)} :
          agg' = [agg EXCEPT !.pc = "converted", !.err = r.err,
                             !.mean_accum_dict = r.dict]
    /\ AggFrame

NextAgg == AggSum \/ AggMean

SpecAgg == InitAgg /\ [][NextAgg]_vars

\* the cluster a sample is counted in: the one listing it that the Dict
\* yields last
AssignedTo(s) ==
    LET listing == {p \in DOMAIN agg.cc_order :
                       agg.sid_header[s] \in agg.cclust_map[agg.cc_order[p]]}
    IN agg.cc_order[CHOOSE p \in listing : \A q \in listing : q <= p]
Listed(s) == \E cc \in CclustIds : agg.sid_header[s] \in agg.cclust_map[cc]
StoredAt(s, o) == \E j \in DOMAIN agg.A[s].nzind : agg.A[s].nzind[j] = o
Summed == agg.pc \in {"summed", "converted"}

\* C17: sum_abunds_per_otu_and_cclust raises the assertion error exactly when
\* a sample of the table is listed in no cluster; otherwise the result has an
\* entry for a cluster and an OTU exactly when a sample counted in the cluster
\* has a stored entry for the OTU, the entry is the sum of those stored
\* abundances, and the grand total of the result is the total of the matrix.
C17_SumPerOtuAndCluster ==
    agg.pc \notin {"off", "start"} =>
        LET samples == DOMAIN agg.A
            otus == DOMAIN agg.oid_map
            res == agg.accum_dict
            of(cc) == {s \in samples : AssignedTo(s) = cc}
            sum(cc, o) == SumSeq([s \in samples |->
                              IF AssignedTo(s) = cc THEN Elem(agg.A[s], o) ELSE 0], 1)
            total(cc) == SumSeq([o \in otus |->
                              IF agg.oid_map[o] \in DOMAIN res[cc]
                              THEN res[cc][agg.oid_map[o]] ELSE 0], 1)
            ccs == SortSet({p \in DOMAIN agg.cc_order : agg.cc_order[p] \in DOMAIN res})
        IN /\ (agg.pc = "error") <=> (\E s \in samples : ~Listed(s))
           /\ agg.pc = "error" => agg.err = "AssertionError"
           /\ Summed =>
                 /\ \A cc \in CclustIds : \A o \in otus :
                       /\ (cc \in DOMAIN res /\ agg.oid_map[o] \in DOMAIN res[cc])
                             <=> \E s \in of(cc) : StoredAt(s, o)
                       /\ (cc \in DOMAIN res /\ agg.oid_map[o] \in DOMAIN res[cc])
                             => res[cc][agg.oid_map[o]] = sum(cc, o)
                 /\ \A cc \in CclustIds : cc \in DOMAIN res <=> of(cc) # {}
                 /\ \A cc \in DOMAIN res : DOMAIN res[cc] \subseteq Unique(agg.oid_map)
                 /\ SumSeq([k \in DOMAIN ccs |-> total(agg.cc_order[ccs[k]])], 1)
                       = SumSeq([s \in samples |-> Total(agg.A[s])], 1)

\* two samples of one cluster share an OTU with a positive abundance, the
\* other OTU has no stored entry in that cluster, and the map lists a sample
\* that is no column of the table
C17_Witness ==
    /\ agg.pc = "summed"
    /\ OtherSample \in agg.cclust_map["cc_x"]
    /\ \E cc \in DOMAIN agg.accum_dict :
          /\ Cardinality(DOMAIN agg.accum_dict[cc]) = 1
          /\ \E oid \in DOMAIN agg.accum_dict[cc] : agg.accum_dict[cc][oid] = 2

\* C18: convert_to_mean_abunds(accum_dict, cclust_map) returns, for every
\* cluster cc and every OTU of accum_dict[cc], the accumulated abundance
\* divided by the number of samples listed for cc.  (Violated: the function
\* reads the variable nz, which it never defines, and raises.)
C18_ConvertToMeanAbunds ==
    agg.pc = "converted" =>
        /\ agg.err = "none"
        /\ DOMAIN agg.mean_accum_dict = DOMAIN agg.accum_dict
        /\ \A cc \in DOMAIN agg.accum_dict :
              /\ DOMAIN agg.mean_accum_dict[cc] = DOMAIN agg.accum_dict[cc]
              /\ \A oid \in DOMAIN agg.accum_dict[cc] :
                    LET mean == agg.mean_accum_dict[cc][oid]
                    IN /\ IsFin(mean)
                       /\ mean.n * Cardinality(agg.cclust_map[cc])
                             = agg.accum_dict[cc][oid] * mean.d

=============================================================================
